---- MODULE Spec2Model ----
(***************************************************************************)
(* Course recommendation engine of DCampus                                 *)
(* (src/ml_models/course_recommendation/model.py,                          *)
(*  class CourseRecommendationSystem).                                     *)
(*                                                                         *)
(* Numbers.  Python floats are modelled in fixed point:                    *)
(*   - scores, similarities, popularity: integers, One stands for 1.0;     *)
(*   - interaction values (ratings 1..5): quarter points, 4 stands for 1;  *)
(*   - grade values: tenths, 40 stands for 4.0.                            *)
(* Products with the float weights of the code (0.4, 0.6, 0.2, ...) are    *)
(* integer products followed by a floor division.                          *)
(*                                                                         *)
(* Library code.  TfidfVectorizer and cosine_similarity are scikit-learn;  *)
(* the vectorizer is modelled as the set of vocabulary terms of a text     *)
(* with the same weight for every term, and the cosine as dot/sqrt(|u|^2 |v|^2), 0 for a zero *)
(* vector, rounded down to a multiple of 1/One.                            *)
(***************************************************************************)
EXTENDS Integers, Sequences, FiniteSets, TLC

VARIABLES
    csv,                       \* the three CSV files the paths name
    disk,                      \* the pickle files of model_dir
    courses_df,                \* self.courses_df
    students_df,               \* self.students_df
    course_history_df,         \* self.course_history_df
    course_content_matrix,     \* self.course_vectorizer, self.course_content_matrix
    course_similarity_matrix,  \* self.course_similarity_matrix
    student_course_matrix,     \* self.student_course_matrix
    student_preprocessor,      \* self.student_preprocessor, self.student_embeddings
    called,                    \* the methods called on the instance since __init__
    call,                      \* the call in progress or just returned
    locals,                    \* its local variables when it has ended
    result,                    \* what that call returned or raised
    first                      \* the result of the same call made just before

vars == <<csv, disk, courses_df, students_df, course_history_df,
          course_content_matrix, course_similarity_matrix,
          student_course_matrix, student_preprocessor, called, call, locals,
          result, first>>

model == <<courses_df, students_df, course_history_df,
           course_content_matrix, course_similarity_matrix,
           student_course_matrix, student_preprocessor>>

----------------------------------------------------------------------------
(* Bounds and scales                                                       *)

\* largest value of the limit argument of recommend_courses
MaxLimit == 2

\* 1.0 in fixed point
One == 10 * 100

\* a field of the instance that is None is the empty tuple, a set one is <<value>>
None == <<>>

Some(x) == <<x>>

\* a missing number (pandas NaN)
NaN == -1

\* difficulty_filter=None
NoFilter == "None"

----------------------------------------------------------------------------
(* Generic helpers                                                         *)

Range(s) == {s[i] : i \in 1..Len(s)}

Min(a, b) == IF a <= b THEN a ELSE b

Max(a, b) == IF a >= b THEN a ELSE b

\* s[:n] for n >= 0
Take(s, n) == SubSeq(s, 1, Min(n, Len(s)))

RECURSIVE SumBetween(_, _, _)
\* s[a] + ... + s[b]
SumBetween(s, a, b) ==
    IF a > b THEN 0
    ELSE IF a = b THEN s[a]
    ELSE SumBetween(s, a, (a + b) \div 2) + SumBetween(s, (a + b) \div 2 + 1, b)

SumSeq(s) == LET t == <<>> \o s IN SumBetween(t, 1, Len(t))

\* the sub-sequence of the positions i of s with Keep(i), from position i on
SelectIdx(s, Keep(_), i) ==
    LET kept == {k \in i..Len(s) : Keep(k)}
    IN  <<>> \o [n \in 1..Cardinality(kept) |->
                   s[CHOOSE k \in kept : Cardinality({j \in kept : j <= k}) = n]]

\* sorted(s, key=lambda x: x[1], reverse=True): stable, descending by score.
\* The element at position k goes behind the elements with a higher score and
\* the earlier elements with the same score.
SortedDesc(s) ==
    LET t == <<>> \o s
        place == <<>> \o [k \in 1..Len(t) |->
                     1 + Cardinality({j \in 1..Len(t) :
                             t[j][2] > t[k][2] \/ (t[j][2] = t[k][2] /\ j < k)})]
    IN  <<>> \o [p \in 1..Len(t) |-> t[CHOOSE k \in 1..Len(t) : place[k] = p]]

RECURSIVE ISqrtFrom(_, _)
ISqrtFrom(n, x) ==
    LET y == (x + (n \div x)) \div 2
    IN  IF y >= x THEN x ELSE ISqrtFrom(n, y)

\* floor of the square root: Newton's iteration from a number that is at
\* least the square root
ISqrt(n) ==
    IF n = 0 THEN 0
    ELSE IF n > 1073741824 THEN ISqrtFrom(n, n)
    ELSE ISqrtFrom(n, Min(n, 32768))

\* sklearn cosine_similarity of two vectors given over the index sequence idx
Cosine(u, v, idx) ==
    LET dot == SumSeq([i \in 1..Len(idx) |-> u[idx[i]] * v[idx[i]]])
        nu  == SumSeq([i \in 1..Len(idx) |-> u[idx[i]] * u[idx[i]]])
        nv  == SumSeq([i \in 1..Len(idx) |-> v[idx[i]] * v[idx[i]]])
    IN  IF nu = 0 \/ nv = 0 THEN 0
        ELSE (One * dot * 10) \div ISqrt(nu * nv * 100)

----------------------------------------------------------------------------
(* The data files: courses.csv, students.csv, course_history.csv           *)

\* every course identifier that occurs, in sorted order; "c9" is in no
\* course table (a dangling reference)
CourseOrder == <<"c1", "c2", "c3", "c4", "c5", "c6", "c7", "c8", "c9", "d1", "d2",
                 "e01", "e02", "e03", "e04", "e05", "e06", "e07", "e08", "e09",
                 "e10", "e11">>

\* every student identifier that occurs, in sorted order; "s3" is in no
\* students table and in no history (an unknown student)
StudentOrder == <<"s1", "s2", "s3", "t01", "t02", "t03", "t04", "t05", "t06",
                  "t07", "t08", "t09", "t10", "t11">>

\* every term that occurs in a text, in a fixed order
TermOrder == <<"cs", "math", "prog", "algebra", "introductory", "advanced",
               "level", "course">>

Difficulties == {"introductory", "advanced"}

\* prerequisites of c2 and c3 (c1 has none)
PrereqConfigs ==
    { [c1 |-> {}, c2 |-> {},     c3 |-> {}],
      [c1 |-> {}, c2 |-> {"c1"}, c3 |-> {"c9"}] }

\* the third course: a level-300 advanced course of another department, or a
\* level-200 course with the same text as c1 and c2
ThirdCourses ==
    { [department |-> "math", keywords |-> {"algebra"},
       difficulty |-> "advanced", level |-> 300],
      [department |-> "cs", keywords |-> {"prog"},
       difficulty |-> "introductory", level |-> 200] }

\* courses.csv with prerequisites p and third course v; avg_rating is in
\* tenths.  course_name and description add no term of their own to the text
\* of a course.
CoursesCsv(p, v) ==
    << [course_id |-> "c1", department |-> "cs", keywords |-> {"prog"},
        difficulty |-> "introductory", level |-> 100,
        prerequisites |-> p.c1, avg_rating |-> 31, rating_count |-> 12],
       [course_id |-> "c2", department |-> "cs", keywords |-> {"prog"},
        difficulty |-> "introductory", level |-> 200,
        prerequisites |-> p.c2, avg_rating |-> 35, rating_count |-> 40],
       [course_id |-> "c3", department |-> v.department, keywords |-> v.keywords,
        difficulty |-> v.difficulty, level |-> v.level,
        prerequisites |-> p.c3, avg_rating |-> 28, rating_count |-> 25] >>

\* students.csv
StudentsCsv ==
    << [student_id |-> "s1", department |-> "cs", year_of_study |-> 2,
        topic_interests |-> <<"prog">>],
       [student_id |-> "s2", department |-> "math", year_of_study |-> 5,
        topic_interests |-> <<>>] >>

Rec(s, c, g, r) ==
    [student_id |-> s, course_id |-> c, grade_value |-> g, student_rating |-> r]

\* the course-history records of student s1
S1Histories ==
    { <<>>,
      << Rec("s1", "c1", 0, NaN) >>,
      << Rec("s1", "c1", 40, 5), Rec("s1", "c2", 30, 4) >>,
      << Rec("s1", "c1", 20, NaN), Rec("s1", "c1", 40, 5), Rec("s1", "c2", 30, NaN),
         Rec("s1", "c9", 40, NaN) >> }

\* the course-history records of student s2
S2Histories ==
    { << Rec("s2", "c3", 40, 5) >>,
      << Rec("s2", "c1", 40, 5), Rec("s2", "c2", 30, 4), Rec("s2", "c3", 30, 5),
         Rec("s2", "c3", 40, 5) >>,
      << Rec("s2", "c1", 30, 3), Rec("s2", "c2", 40, 5), Rec("s2", "c3", 20, 2) >> }

\* a catalogue of 11 courses: ten cs courses with the same text and one math
\* course, with a history of two courses for each student
LargeCatalogue ==
    [courses |->
         [i \in 1..11 |->
             IF CourseOrder[i] = "d2"
             THEN [course_id |-> "d2", department |-> "math", keywords |-> {"algebra"},
                   difficulty |-> "advanced", level |-> 300,
                   prerequisites |-> {}, avg_rating |-> 28, rating_count |-> 25]
             ELSE [course_id |-> CourseOrder[i], department |-> "cs",
                   keywords |-> {"prog"}, difficulty |-> "introductory", level |-> 100,
                   prerequisites |-> {}, avg_rating |-> 31, rating_count |-> 12]],
     students |-> StudentsCsv,
     history |-> << Rec("s1", "c7", 40, 5), Rec("s1", "d2", 30, 4),
                    Rec("s2", "c1", 40, 5), Rec("s2", "d2", 30, NaN) >>]

\* the ratings of c1 and c2 and the third course (with its rating, or NaN and
\* a grade) of the eleven further students of the large cohort
CohortRows ==
    << <<"t01", 5, 4, <<"c3", 5, 40>> >>,   <<"t02", 4, 3, <<"c3", 4, 30>> >>,
       <<"t03", 5, 5, <<"c4", 3, 30>> >>,   <<"t04", 4, 4, <<"c5", NaN, 33>> >>,
       <<"t05", 5, 3, <<>> >>,              <<"t06", 3, 2, <<"c4", 5, 40>> >>,
       <<"t07", 4, 5, <<"c3", 5, 37>> >>,   <<"t08", 3, 4, <<>> >>,
       <<"t09", 2, 1, <<"c4", 4, 33>> >>,   <<"t10", 4, 2, <<>> >>,
       <<"t11", 1, 5, <<"c6", 5, 40>> >> >>

RECURSIVE CohortHistory(_)
\* the course-history records of the further students from row k on
CohortHistory(k) ==
    IF k > Len(CohortRows) THEN <<>>
    ELSE LET row == CohortRows[k]
         IN  << Rec(row[1], "c1", 30, row[2]), Rec(row[1], "c2", 30, row[3]) >>
             \o (IF row[4] = <<>> THEN <<>>
                 ELSE << Rec(row[1], row[4][1], row[4][3], row[4][2]) >>)
             \o CohortHistory(k + 1)

\* the large catalogue with the history of a cohort of 13 students: s1 has
\* rated c1 and c2, s2 shares one course with s1, the eleven further students
\* share c1 and c2 with s1 (course_history.csv holds their records,
\* students.csv has no row for them)
LargeCohort ==
    [courses |-> LargeCatalogue.courses,
     students |-> StudentsCsv,
     history |-> << Rec("s1", "c1", 40, 5), Rec("s1", "c2", 30, 4),
                    Rec("s2", "c1", 40, 5), Rec("s2", "c7", 40, 5) >>
                 \o CohortHistory(1)]

\* a catalogue of 22 courses, more than evaluate asks candidates for: the
\* courses of the large catalogue and eleven further cs courses with the same
\* text; s1 has taken c1 twice and the last course, s2 has taken c1 and d2
WideCatalogue ==
    [courses |->
         [i \in 1..Len(CourseOrder) |->
             IF i <= 11 THEN LargeCatalogue.courses[i]
             ELSE [course_id |-> CourseOrder[i], department |-> "cs",
                   keywords |-> {"prog"}, difficulty |-> "introductory", level |-> 200,
                   prerequisites |-> {}, avg_rating |-> 35, rating_count |-> 40]],
     students |-> StudentsCsv,
     history |-> << Rec("s1", "c1", 20, NaN), Rec("s1", "c1", 40, 5),
                    Rec("s1", "e11", 30, 4),
                    Rec("s2", "c1", 40, 5), Rec("s2", "d2", 30, NaN) >>]

Datasets ==
    { [courses  |-> CoursesCsv(p, v),
       students |-> StudentsCsv,
       history  |-> h1 \o h2] :
        p \in PrereqConfigs, v \in ThirdCourses,
        h1 \in S1Histories, h2 \in S2Histories }
    \cup {LargeCatalogue, LargeCohort, WideCatalogue}

----------------------------------------------------------------------------
(* Preprocessing: content features and interaction matrix                  *)

\* the rows of table t whose column col equals v, as a sequence
Where(t, col, v) == SelectIdx(t, LAMBDA i : t[i][col] = v, 1)

\* the distinct values of s in order of first occurrence (Series.unique())
Unique(s) == SelectIdx(s, LAMBDA i : \A j \in 1..(i-1) : s[j] # s[i], 1)

\* content_text of a course row, as the set of its terms
ContentText(row) ==
    {row.department, row.difficulty, "level", "course"} \cup row.keywords

\* the vocabulary the vectorizer learns from the course texts
FitVocabulary(courses) ==
    SelectSeq(TermOrder, LAMBDA t : \E i \in 1..Len(courses) : t \in ContentText(courses[i]))

\* vectorizer.transform of one text: weight 1.0 (in tenths) for every
\* vocabulary term of the text
Transform(vocabulary, text) ==
    [t \in Range(vocabulary) |-> IF t \in text THEN 10 ELSE 0]

\* _create_course_content_features: the vectorizer and the content matrix
CourseContentMatrix(courses) ==
    LET vocabulary == FitVocabulary(courses)
    IN  [vocabulary |-> vocabulary,
         rows |-> [i \in 1..Len(courses) |->
                      Transform(vocabulary, ContentText(courses[i]))]]

\* cosine_similarity(self.course_content_matrix)
CourseSimilarityMatrix(cm) ==
    [i \in 1..Len(cm.rows) |->
        [j \in 1..Len(cm.rows) |-> Cosine(cm.rows[i], cm.rows[j], cm.vocabulary)]]

\* courses_df after _create_course_content_features: column content_text added
WithContentText(courses) ==
    [i \in 1..Len(courses) |->
        [content_text |-> ContentText(courses[i])] @@
        [f \in DOMAIN courses[i] \ {"content_text"} |-> courses[i][f]]]

\* interaction_value of one history record, in quarter points
InteractionValue(rec) ==
    IF rec.student_rating # NaN THEN 4 * rec.student_rating
    ELSE rec.grade_value \div 2

\* the interaction values of the records of student s and course c
InteractionsOf(history, s, c) ==
    LET recs == SelectSeq(history, LAMBDA r : r.student_id = s /\ r.course_id = c)
    IN  [i \in 1..Len(recs) |-> InteractionValue(recs[i])]

\* the pivot table with the values of a pair summed instead of averaged
StudentCourseMatrixSummed(history) ==
    LET index   == SelectSeq(StudentOrder,
                       LAMBDA s : \E i \in 1..Len(history) : history[i].student_id = s)
        columns == SelectSeq(CourseOrder,
                       LAMBDA c : \E i \in 1..Len(history) : history[i].course_id = c)
    IN  [index |-> index,
         columns |-> columns,
         cell |-> [s \in Range(index) |-> [c \in Range(columns) |->
                    SumSeq(InteractionsOf(history, s, c))]]]

\* _create_student_course_matrix: pivot_table, mean of the values, 0 if none
StudentCourseMatrix(history) ==
    LET index   == SelectSeq(StudentOrder,
                       LAMBDA s : \E i \in 1..Len(history) : history[i].student_id = s)
        columns == SelectSeq(CourseOrder,
                       LAMBDA c : \E i \in 1..Len(history) : history[i].course_id = c)
    IN  [index |-> index,
         columns |-> columns,
         cell |-> [s \in Range(index) |-> [c \in Range(columns) |->
                    LET v == InteractionsOf(history, s, c)
                    IN  IF Len(v) = 0 THEN 0 ELSE SumSeq(v) \div Len(v)]]]

----------------------------------------------------------------------------
(* Training: popularity and difficulty columns                             *)

\* r with the fields of e added or overwritten
Assign(r, e) == e @@ [f \in DOMAIN r \ DOMAIN e |-> r[f]]

\* r with field f renamed to g
Rename(r, f, g) == [h \in (DOMAIN r \ {f}) \cup {g} |-> IF h = g THEN r[f] ELSE r[h]]

MaxOf(s) == CHOOSE x \in Range(s) : \A y \in Range(s) : x >= y

MinOf(s) == CHOOSE x \in Range(s) : \A y \in Range(s) : x <= y

\* number of history records of course c
EnrollmentCount(history, c) ==
    Len(SelectSeq(history, LAMBDA r : r.course_id = c))

\* the recorded ratings of course c
RatingsOf(history, c) ==
    LET recs == SelectSeq(history, LAMBDA r : r.course_id = c /\ r.student_rating # NaN)
    IN  [i \in 1..Len(recs) |-> recs[i].student_rating]

\* mean recorded rating of course c in tenths, NaN if none is recorded
MeanRating(history, c) ==
    LET v == RatingsOf(history, c)
    IN  IF Len(v) = 0 THEN NaN ELSE (10 * SumSeq(v)) \div Len(v)

\* one row after the two merges of _calculate_course_popularity and the
\* fillna calls: a column the left table already has comes out of pd.merge as
\* <name>_x and <name>_y, and the column <name> is then created as 0
MergedPopularityRow(row, history) ==
    LET enrolment == EnrollmentCount(history, row.course_id)
        mean      == MeanRating(history, row.course_id)
        count     == Len(RatingsOf(history, row.course_id))
        r1 == Assign(row, [enrollment_count |-> enrolment])
        r2 == IF "avg_rating" \in DOMAIN row
              THEN Assign(Rename(r1, "avg_rating", "avg_rating_x"),
                          [avg_rating_y |-> mean, avg_rating |-> 0])
              ELSE Assign(r1, [avg_rating |-> IF mean = NaN THEN 0 ELSE mean])
        r3 == IF "rating_count" \in DOMAIN row
              THEN Assign(Rename(r2, "rating_count", "rating_count_x"),
                          [rating_count_y |-> IF mean = NaN THEN NaN ELSE count,
                           rating_count |-> 0])
              ELSE Assign(r2, [rating_count |-> count])
    IN  r3

\* _calculate_course_popularity:
\* popularity_score = 0.7 * enrollment_count / enrollment_max + 0.3 * avg_rating / 5
CalculateCoursePopularity(courses, history) ==
    LET merged == [i \in 1..Len(courses) |-> MergedPopularityRow(courses[i], history)]
        enrollment_max ==
            Max(MaxOf([i \in 1..Len(merged) |-> merged[i].enrollment_count]), 1)
    IN  [i \in 1..Len(merged) |->
            Assign(merged[i],
                [popularity_score |->
                    (7 * One * merged[i].enrollment_count) \div (10 * enrollment_max)
                    + (3 * One * merged[i].avg_rating) \div (10 * 50)])]

\* difficulty_map
DifficultyNum(d) ==
    CASE d = "introductory" -> 1
      [] d = "intermediate" -> 2
      [] d = "advanced"     -> 3
      [] d = "specialized"  -> 4

\* mean grade of course c in tenths, 0 if it has no record (fillna(0))
AvgGrade(history, c) ==
    LET recs == SelectSeq(history, LAMBDA r : r.course_id = c)
    IN  IF Len(recs) = 0 THEN 0
        ELSE SumSeq([i \in 1..Len(recs) |-> recs[i].grade_value]) \div Len(recs)

\* difficulty_score before normalisation
RawDifficulty(row, history) ==
    IF EnrollmentCount(history, row.course_id) > 5
    THEN (7 * One * (40 - AvgGrade(history, row.course_id))) \div (10 * 40)
         + (3 * One * DifficultyNum(row.difficulty)) \div (10 * 4)
    ELSE (One * DifficultyNum(row.difficulty)) \div 4

\* _calculate_course_difficulty: (raw - min) / (max - min), NaN for 0/0
CalculateCourseDifficulty(courses, history) ==
    LET raw == [i \in 1..Len(courses) |-> RawDifficulty(courses[i], history)]
        lo  == MinOf(raw)
        hi  == MaxOf(raw)
    IN  [i \in 1..Len(courses) |->
            Assign(courses[i],
                [avg_grade |-> AvgGrade(history, courses[i].course_id),
                 grade_count |-> EnrollmentCount(history, courses[i].course_id),
                 difficulty_num |-> DifficultyNum(courses[i].difficulty),
                 difficulty_score |->
                    IF hi = lo THEN NaN ELSE (One * (raw[i] - lo)) \div (hi - lo)])]

----------------------------------------------------------------------------
(* The two recommenders.  m is the instance: a record of its fields.       *)

\* a Python dict as the sequence of its <<key, value>> items in insertion order
DictHas(d, k) == \E i \in 1..Len(d) : d[i][1] = k

DictGet(d, k) == d[CHOOSE i \in 1..Len(d) : d[i][1] = k][2]

\* d[k] = d.get(k, 0) + v
DictAdd(d, k, v) ==
    IF DictHas(d, k)
    THEN [i \in 1..Len(d) |-> IF d[i][1] = k THEN <<k, d[i][2] + v>> ELSE d[i]]
    ELSE Append(d, <<k, v>>)

\* the course_id column of the history rows of student s
HistoryCourses(history, s) ==
    LET recs == Where(history, "student_id", s)
    IN  [i \in 1..Len(recs) |-> recs[i].course_id]

\* query_text, as the set of its terms
QueryText(interests, department) ==
    IF interests = <<>> THEN {department} ELSE Range(interests) \cup {department}

\* the row numbers of the taken courses that are in the course table, in the
\* order of student_courses
TakenRows(courses, student_courses) ==
    LET known == SelectSeq(student_courses,
                     LAMBDA c : \E i \in 1..Len(courses) : courses[i].course_id = c)
    IN  [k \in 1..Len(known) |->
            CHOOSE i \in 1..Len(courses) : courses[i].course_id = known[k]]

\* similarity_scores with the similarity row added once per history record
\* instead of once per distinct course
SimilarityScoresPerRecord(m, student_id, interests, department) ==
    LET cm    == m.course_content_matrix
        query == Transform(cm.vocabulary, QueryText(interests, department))
        taken == TakenRows(m.courses_df, HistoryCourses(m.course_history_df, student_id))
    IN  [i \in 1..Len(m.courses_df) |->
            Cosine(query, cm.rows[i], cm.vocabulary)
            + SumSeq([k \in 1..Len(taken) |->
                          m.course_similarity_matrix[taken[k]][i] \div 2])]

\* similarity_scores after the loop of lines 426-433: the query similarity
\* plus 0.5 times the similarity row of every taken course
SimilarityScores(m, student_id, interests, department) ==
    LET cm    == m.course_content_matrix
        query == Transform(cm.vocabulary, QueryText(interests, department))
        taken == TakenRows(m.courses_df,
                           Unique(HistoryCourses(m.course_history_df, student_id)))
    IN  [i \in 1..Len(m.courses_df) |->
            Cosine(query, cm.rows[i], cm.vocabulary)
            + SumSeq([k \in 1..Len(taken) |->
                          m.course_similarity_matrix[taken[k]][i] \div 2])]

\* the whole ranking, whatever limit is
ContentBasedRecommendationsUnbounded(m, student_id, interests, department, limit) ==
    LET scores == SimilarityScores(m, student_id, interests, department)
    IN  SortedDesc([i \in 1..Len(m.courses_df) |-> <<m.courses_df[i].course_id, scores[i]>>])

\* _get_content_based_recommendations
ContentBasedRecommendations(m, student_id, interests, department, limit) ==
    LET scores == SimilarityScores(m, student_id, interests, department)
        course_scores ==
            [i \in 1..Len(m.courses_df) |-> <<m.courses_df[i].course_id, scores[i]>>]
    IN  Take(SortedDesc(course_scores), limit)

\* the courses either of two students has a nonzero value for
CommonCoursesEither(scm, a, b) ==
    SelectSeq(scm.columns, LAMBDA c : scm.cell[a][c] > 0 \/ scm.cell[b][c] > 0)

\* the courses on which both rows have a nonzero value (mask)
CommonCourses(scm, a, b) ==
    SelectSeq(scm.columns, LAMBDA c : scm.cell[a][c] > 0 /\ scm.cell[b][c] > 0)

\* student_similarities: for every other student with at least 2 courses in
\* common, the cosine of the two rows over the common courses
StudentSimilarities(scm, student_id) ==
    LET others == SelectSeq(scm.index,
                      LAMBDA o : o # student_id
                                 /\ Len(CommonCourses(scm, student_id, o)) >= 2)
    IN  [k \in 1..Len(others) |->
            <<others[k], Cosine(scm.cell[student_id], scm.cell[others[k]],
                                CommonCourses(scm, student_id, others[k]))>>]

\* number of most similar students whose courses are propagated
TopNeighbours == 10

RECURSIVE NeighbourScores(_, _, _, _, _)
\* course_scores after the courses from position j on of one neighbour
\* (course_scores has at most one item per course)
NeighbourScores(scm, student_id, neighbour, j, acc) ==
    IF j > Len(scm.columns) \/ Len(acc) > Len(scm.columns) THEN acc
    ELSE LET course == scm.columns[j]
             other_rating == scm.cell[neighbour[1]][course]
         IN  NeighbourScores(scm, student_id, neighbour, j + 1,
                 IF other_rating > 3 * 4 /\ scm.cell[student_id][course] = 0
                 THEN DictAdd(acc, course, (neighbour[2] * other_rating) \div (5 * 4))
                 ELSE acc)

RECURSIVE CourseScores(_, _, _, _, _)
\* course_scores after the neighbours from position k on
CourseScores(scm, student_id, neighbours, k, acc) ==
    IF k > Len(neighbours) \/ Len(acc) > Len(scm.columns) THEN acc
    ELSE CourseScores(scm, student_id, neighbours, k + 1,
             NeighbourScores(scm, student_id, neighbours[k], 1, acc))

\* the collaborative recommender with the courses of every similar student
\* propagated
CollaborativeRecommendationsAllNeighbours(m, student_id, limit) ==
    LET scm == m.student_course_matrix
    IN  IF student_id \notin Range(scm.index) THEN <<>>
        ELSE Take(SortedDesc(CourseScores(scm, student_id,
                                 SortedDesc(StudentSimilarities(scm, student_id)), 1, <<>>)),
                  limit)

\* _get_collaborative_recommendations
CollaborativeRecommendations(m, student_id, limit) ==
    LET scm == m.student_course_matrix
    IN  IF student_id \notin Range(scm.index) THEN <<>>
        ELSE LET neighbours ==
                     Take(SortedDesc(StudentSimilarities(scm, student_id)), TopNeighbours)
             IN  Take(SortedDesc(CourseScores(scm, student_id, neighbours, 1, <<>>)),
                      limit)

----------------------------------------------------------------------------
(* recommend_courses                                                       *)

Raise(e) == [kind |-> "raise", error |-> e]

Return(v) == [kind |-> "return", value |-> v]

\* the instance with every field unwrapped (no field is None)
Fields(m) == [f \in DOMAIN m |-> m[f][1]]

\* taken_courses built whatever exclude_taken is
TakenCoursesAlways(history, student_id, exclude_taken) ==
    Range(HistoryCourses(history, student_id))

\* taken_courses (lines 306-311)
TakenCourses(history, student_id, exclude_taken) ==
    IF exclude_taken THEN Range(HistoryCourses(history, student_id)) ELSE {}

RECURSIVE FuseAll(_, _, _, _, _)
\* Fuse without the test of line 334 / 338: taken courses are fused as well
FuseAll(recs, tenths, taken_courses, i, all_recs) ==
    IF i > Len(recs) THEN all_recs
    ELSE FuseAll(recs, tenths, taken_courses, i + 1,
             DictAdd(all_recs, recs[i][1], (tenths * recs[i][2]) \div 10))

RECURSIVE Fuse(_, _, _, _, _)
\* all_recs after the items from position i on of one recommendation list,
\* each weighted by tenths/10 (lines 332-341)
Fuse(recs, tenths, taken_courses, i, all_recs) ==
    IF i > Len(recs) THEN all_recs
    ELSE Fuse(recs, tenths, taken_courses, i + 1,
             IF recs[i][1] \notin taken_courses
             THEN DictAdd(all_recs, recs[i][1], (tenths * recs[i][2]) \div 10)
             ELSE all_recs)

\* all_recs with the two weights exchanged
AllRecsSwapped(content_based_recs, collaborative_recs, taken_courses) ==
    Fuse(collaborative_recs, 4, taken_courses, 1,
         Fuse(content_based_recs, 6, taken_courses, 1, <<>>))

\* all_recs (lines 331-341): 0.4 * content score + 0.6 * collaborative score
AllRecs(content_based_recs, collaborative_recs, taken_courses) ==
    Fuse(collaborative_recs, 6, taken_courses, 1,
         Fuse(content_based_recs, 4, taken_courses, 1, <<>>))

\* prereq_met without the prerequisite test: every course passes
PrereqIgnored(row, taken_courses) == TRUE

\* prereq_met (line 354)
PrereqMet(row, taken_courses) == \A prereq \in row.prerequisites : prereq \in taken_courses

\* the difficulty test without the comparison: every course passes
DifficultyIgnored(row, difficulty_filter) == TRUE

\* does the difficulty filter let the course through (line 349)
DifficultyPasses(row, difficulty_filter) ==
    difficulty_filter = NoFilter \/ row.difficulty = difficulty_filter

\* a level_match that lowers the score of a course of another year
LevelMatchPenalised(row, student_year) ==
    IF row.level \div 100 = student_year THEN (12 * One) \div 10 ELSE (8 * One) \div 10

\* level_match (lines 362-364)
LevelMatch(row, student_year) ==
    IF row.level \div 100 = student_year THEN (12 * One) \div 10 ELSE One

\* final_score with the popularity score weighted once, by 0.2, instead of
\* twice
FinalScoreSingleWeight(row, score, student_year) ==
    (6 * score) \div 10 + (2 * row.popularity_score) \div 10
    + (2 * LevelMatch(row, student_year)) \div 10

\* final_score (lines 359-367)
FinalScore(row, score, student_year) ==
    LET popularity_boost == (2 * row.popularity_score) \div 10
    IN  (6 * score) \div 10 + (2 * popularity_boost) \div 10
        + (2 * LevelMatch(row, student_year)) \div 10

\* Python round(n / d) for n >= 0: to the nearest integer, a half to the even one
Round(n, d) ==
    LET q == n \div d
        r == n % d
    IN  IF 2 * r > d \/ (2 * r = d /\ q % 2 = 1) THEN q + 1 ELSE q

\* matchScore without the cap at 100
MatchScoreUnclamped(score) == Round(score * 100, One)

\* matchScore (line 388)
MatchScore(score) == Min(Round(score * 100, One), 100)

\* what the loop body of lines 345-369 does with one item of all_recs
CandidateStep(courses, item, taken_courses, difficulty_filter) ==
    LET found == Where(courses, "course_id", item[1])
    IN  IF Len(found) = 0 THEN "IndexError"
        ELSE IF ~DifficultyPasses(found[1], difficulty_filter) THEN "skip"
        ELSE IF ~PrereqMet(found[1], taken_courses) THEN "skip"
        ELSE IF "popularity_score" \notin DOMAIN found[1] THEN "KeyError"
        ELSE "append"

RECURSIVE FilteredCourses(_, _, _, _, _, _, _)
\* the loop of lines 344-369 from item i on: the error it raises, or
\* filtered_courses
FilteredCourses(courses, all_recs, taken_courses, difficulty_filter, student_year, i, acc) ==
    IF i > Len(all_recs) THEN Return(acc)
    ELSE LET step == CandidateStep(courses, all_recs[i], taken_courses, difficulty_filter)
             row  == Where(courses, "course_id", all_recs[i][1])[1]
         IN  IF step \in {"IndexError", "KeyError"} THEN Raise(step)
             ELSE FilteredCourses(courses, all_recs, taken_courses, difficulty_filter,
                      student_year, i + 1,
                      IF step = "append"
                      THEN Append(acc, <<all_recs[i][1],
                                         FinalScore(row, all_recs[i][2], student_year)>>)
                      ELSE acc)

\* course_info (lines 377-390)
CourseInfo(courses, item) ==
    LET course == Where(courses, "course_id", item[1])[1]
    IN  [courseId   |-> item[1],
         department |-> course.department,
         difficulty |-> course.difficulty,
         rating     |-> IF course.avg_rating = NaN THEN None
                        ELSE Some(course.avg_rating),
         matchScore |-> MatchScore(item[2]),
         keywords   |-> course.keywords]

\* top_courses without the sort: the first limit candidates
TopCoursesUnsorted(filtered_courses, limit) == Take(filtered_courses, limit)

\* top_courses (line 372), with their final scores
TopCourses(filtered_courses, limit) == Take(SortedDesc(filtered_courses), limit)

\* collaborative_recs with a cold-start fallback: a student without
\* interactions gets the courses of the matrix, each with score 1.0
CollaborativeRecsColdStart(f, student_id, limit) ==
    LET scm == f.student_course_matrix
    IN  IF student_id \in Range(scm.index)
           /\ \E j \in 1..Len(scm.columns) : scm.cell[student_id][scm.columns[j]] # 0
        THEN CollaborativeRecommendations(f, student_id, limit * 2)
        ELSE Take([j \in 1..Len(scm.columns) |-> <<scm.columns[j], One>>], limit * 2)

\* has the student a row of the interaction matrix that does not sum to 0
\* (line 327)
HasInteractions(scm, student_id) ==
    /\ student_id \in Range(scm.index)
    /\ SumSeq([j \in 1..Len(scm.columns) |-> scm.cell[student_id][scm.columns[j]]]) # 0

\* collaborative_recs (lines 326-328)
CollaborativeRecs(f, student_id, limit) ==
    IF HasInteractions(f.student_course_matrix, student_id)
    THEN CollaborativeRecommendations(f, student_id, limit * 2)
    ELSE <<>>

NotTrained == "ValueError: Model must be trained first"

\* a readiness check on the course table instead of the similarity matrix
NotReadyWithoutCourses(m) == m.courses_df = None

\* the readiness check of recommend_courses and evaluate (lines 303, 576)
NotReady(m) == m.course_similarity_matrix = None

\* student_info (line 314), as the list of the matching rows
StudentInfo(m, student_id) == Where(m.students_df[1], "student_id", student_id)

\* a readiness check that also asks for the history and students tables
EarlyErrorDataChecked(m, student_id) ==
    IF NotReady(m) \/ m.course_history_df = None \/ m.students_df = None
    THEN Some(NotTrained)
    ELSE IF Len(StudentInfo(m, student_id)) = 0
    THEN Some("IndexError")
    ELSE None

\* what stops recommend_courses before its first recommender call, if
\* anything does (lines 303-318)
EarlyError(m, student_id) ==
    IF NotReady(m) THEN Some(NotTrained)
    ELSE IF m.course_history_df = None \/ m.students_df = None
    THEN Some("TypeError")
    ELSE IF Len(StudentInfo(m, student_id)) = 0
    THEN Some("IndexError")
    ELSE IF m.course_content_matrix = None \/ m.student_course_matrix = None
            \/ m.course_similarity_matrix = None
    THEN Some("AttributeError")
    ELSE None

\* the local variables of recommend_courses when the call leaves the loop of
\* lines 344-369, None when it raises before line 320
RecommendLocals(m, student_id, limit, exclude_taken, difficulty_filter) ==
    IF EarlyError(m, student_id) # None THEN None
    ELSE LET f == Fields(m)
             student_info == StudentInfo(m, student_id)[1]
             taken_courses == TakenCourses(f.course_history_df, student_id, exclude_taken)
             content_based_recs ==
                 ContentBasedRecommendations(f, student_id, student_info.topic_interests,
                                             student_info.department, limit * 2)
             collaborative_recs == CollaborativeRecs(f, student_id, limit)
             all_recs == AllRecs(content_based_recs, collaborative_recs, taken_courses)
             student_similarities ==
                 IF HasInteractions(f.student_course_matrix, student_id)
                 THEN StudentSimilarities(f.student_course_matrix, student_id)
                 ELSE <<>>
         IN  Some([taken_courses |-> taken_courses,
                   content_based_recs |-> content_based_recs,
                   student_similarities |-> student_similarities,
                   collaborative_recs |-> collaborative_recs,
                   all_recs |-> all_recs,
                   filtered_courses |->
                       FilteredCourses(f.courses_df, all_recs, taken_courses,
                                       difficulty_filter, student_info.year_of_study,
                                       1, <<>>)])

\* recommend_courses from line 371 on
RecommendFor(f, filtered, limit) ==
    LET top_courses == TopCourses(filtered.value, limit)
    IN  IF filtered.kind = "raise" THEN filtered
        ELSE IF \E i \in 1..Len(top_courses) :
                    "avg_rating" \notin
                        DOMAIN Where(f.courses_df, "course_id", top_courses[i][1])[1]
        THEN Raise("KeyError")
        ELSE Return([i \in 1..Len(top_courses) |-> CourseInfo(f.courses_df, top_courses[i])])

\* what recommend_courses returns or raises, its local variables being l
RecommendResult(m, student_id, limit, l) ==
    IF EarlyError(m, student_id) # None THEN Raise(EarlyError(m, student_id)[1])
    ELSE RecommendFor(Fields(m), l[1].filtered_courses, limit)

\* recommend_courses(student_id, limit, exclude_taken, difficulty_filter) on
\* instance m: what it returns or raises
RecommendCourses(m, student_id, limit, exclude_taken, difficulty_filter) ==
    RecommendResult(m, student_id, limit,
                    RecommendLocals(m, student_id, limit, exclude_taken, difficulty_filter))

\* self.course_similarity_matrix after recommend_courses if line 433 added in
\* place to the rows of the stored matrix: the row of every taken course
\* grows by half of itself
SimilarityMatrixAliased(m, student_id) ==
    IF EarlyError(m, student_id) # None THEN m.course_similarity_matrix
    ELSE LET f == Fields(m)
             taken == TakenRows(f.courses_df,
                                Unique(HistoryCourses(f.course_history_df, student_id)))
             sim == f.course_similarity_matrix
         IN  Some([i \in 1..Len(sim) |->
                      IF \E k \in 1..Len(taken) : taken[k] = i
                      THEN [j \in 1..Len(sim[i]) |-> sim[i][j] + sim[i][j] \div 2]
                      ELSE sim[i]])

\* self.course_similarity_matrix after recommend_courses: line 433 adds in
\* place to similarity_scores, which is the array line 418 has just made,
\* not a row of the stored matrix
SimilarityMatrixAfterRecommend(m, student_id) == m.course_similarity_matrix

----------------------------------------------------------------------------
(* evaluate                                                                *)

\* number of content-based recommendations requested per test student
EvalLimit == 20

\* the distinct courses of the history of student s
StudentCourses(history, s) == Range(HistoryCourses(history, s))

\* a temporary history without the records of the test course of any student
TempHistoryAllStudents(history, student_id, test_course) ==
    SelectSeq(history, LAMBDA r : r.course_id # test_course)

\* temp_history (lines 602-605)
TempHistory(history, student_id, test_course) ==
    SelectSeq(history, LAMBDA r : ~(r.student_id = student_id /\ r.course_id = test_course))

\* temp_recommender after preprocess_data (lines 608-614); the courses table
\* is the evaluated instance's own table, not a copy
TempRecommender(f, temp_history) ==
    LET courses == WithContentText(f.courses_df)
        cm      == CourseContentMatrix(courses)
    IN  [courses_df |-> courses,
         students_df |-> f.students_df,
         course_history_df |-> temp_history,
         course_content_matrix |-> cm,
         course_similarity_matrix |-> CourseSimilarityMatrix(cm),
         student_course_matrix |-> StudentCourseMatrix(temp_history)]

\* 1-based position of the test course in the recommendations, 0 if absent
RankOf(recommendations, test_course) ==
    IF \E i \in 1..Len(recommendations) : recommendations[i][1] = test_course
    THEN CHOOSE i \in 1..Len(recommendations) :
             /\ recommendations[i][1] = test_course
             /\ \A j \in 1..(i-1) : recommendations[j][1] # test_course
    ELSE 0

\* the entry of results for one test student (lines 597-644)
EvaluateStudent(f, student_id, test_course) ==
    LET temp == TempRecommender(f, TempHistory(f.course_history_df, student_id, test_course))
        info == Where(f.students_df, "student_id", student_id)[1]
        recommendations ==
            ContentBasedRecommendations(temp, student_id, info.topic_interests,
                                        info.department, EvalLimit)
        rank == RankOf(recommendations, test_course)
    IN  [student_id |-> student_id,
         test_course |-> test_course,
         temp_history |-> temp.course_history_df,
         recommendations |-> recommendations,
         rec_courses |-> [i \in 1..Len(recommendations) |-> recommendations[i][1]],
         hit |-> rank # 0,
         rank |-> rank,
         precision_at_5 |-> IF rank # 0 /\ rank <= 5 THEN 1 ELSE 0,
         precision_at_10 |-> IF rank # 0 /\ rank <= 10 THEN 1 ELSE 0]

\* the skip test with the threshold 1 instead of 2
TooFewCoursesBelowOne(history, student_id) ==
    Cardinality(StudentCourses(history, student_id)) < 1

\* is the test student skipped (line 594)
TooFewCourses(history, student_id) == Cardinality(StudentCourses(history, student_id)) < 2

RECURSIVE EvaluateLoop(_, _, _, _, _)
\* the loop of lines 588-644 from test student i on: the error it raises, or
\* results.  holdout[s] is the element that list(student_courses)[-1] yields
\* for student s.
EvaluateLoop(f, test_student_ids, holdout, i, results) ==
    IF i > Len(test_student_ids) THEN Return(results)
    ELSE LET student_id == test_student_ids[i]
         IN  IF TooFewCourses(f.course_history_df, student_id)
             THEN EvaluateLoop(f, test_student_ids, holdout, i + 1, results)
             ELSE IF Len(Where(f.students_df, "student_id", student_id)) = 0
             THEN Raise("IndexError")
             ELSE EvaluateLoop(f, test_student_ids, holdout, i + 1,
                      Append(results, EvaluateStudent(f, student_id, holdout[student_id])))

\* the three data containers of the instance, unwrapped
DataFields(m) ==
    [courses_df |-> m.courses_df[1], students_df |-> m.students_df[1],
     course_history_df |-> m.course_history_df[1]]

\* the metrics with the precisions and the MRR averaged over the hits instead
\* of over all evaluated students
MetricsOverHits(results) ==
    LET n == Len(results)
        hits == Max(Cardinality({i \in 1..n : results[i].hit}), 1)
    IN  [hit_rate |-> (One * Cardinality({i \in 1..n : results[i].hit})) \div n,
         precision_at_5 |->
             (One * SumSeq([i \in 1..n |-> results[i].precision_at_5])) \div hits,
         precision_at_10 |->
             (One * SumSeq([i \in 1..n |-> results[i].precision_at_10])) \div hits,
         mrr |-> SumSeq([i \in 1..n |->
                     IF results[i].rank # 0 THEN One \div results[i].rank ELSE 0]) \div hits,
         num_test_students |-> n]

\* the metrics of lines 650-667; fractions in fixed point
Metrics(results) ==
    LET n == Len(results)
    IN  [hit_rate |-> (One * Cardinality({i \in 1..n : results[i].hit})) \div n,
         precision_at_5 |-> (One * SumSeq([i \in 1..n |-> results[i].precision_at_5])) \div n,
         precision_at_10 |-> (One * SumSeq([i \in 1..n |-> results[i].precision_at_10])) \div n,
         mrr |-> SumSeq([i \in 1..n |->
                     IF results[i].rank # 0 THEN One \div results[i].rank ELSE 0]) \div n,
         num_test_students |-> n]

NoTestStudents == [error |-> "No suitable test students found"]

\* is some test student evaluated before the loop ends or raises
SomeEvaluated(f, test_student_ids) ==
    \E i \in 1..Len(test_student_ids) :
        /\ ~TooFewCourses(f.course_history_df, test_student_ids[i])
        /\ \A j \in 1..i : TooFewCourses(f.course_history_df, test_student_ids[j])
                           \/ Len(Where(f.students_df, "student_id", test_student_ids[j])) # 0

\* the local variable results of evaluate when its loop ends, None when the
\* call raises before or in the loop
EvaluateLocals(m, argument, test_student_ids, holdout) ==
    IF NotReady(m) \/ m.course_history_df = None \/ m.students_df = None THEN None
    ELSE LET loop == EvaluateLoop(DataFields(m), test_student_ids, holdout, 1, <<>>)
         IN  IF loop.kind = "raise" THEN None ELSE Some([results |-> loop.value])

\* what evaluate returns or raises, its local variables being l
EvaluateOutcome(m, argument, test_student_ids, l) ==
    IF NotReady(m) THEN Raise(NotTrained)
    ELSE IF argument = None /\ m.students_df = None THEN Raise("TypeError")
    ELSE IF test_student_ids = <<>> THEN Return(NoTestStudents)
    ELSE IF m.course_history_df = None \/ m.students_df = None THEN Raise("TypeError")
    ELSE IF l = None THEN Raise("IndexError")
    ELSE IF l[1].results = <<>> THEN Return(NoTestStudents)
    ELSE Return(Metrics(l[1].results))

\* evaluate(argument) on instance m, test_student_ids being the cohort given
\* or drawn: what it returns or raises
Evaluate(m, argument, test_student_ids, holdout) ==
    EvaluateOutcome(m, argument, test_student_ids,
                    EvaluateLocals(m, argument, test_student_ids, holdout))

\* self.courses_df after evaluate: preprocess_data of the temporary
\* recommender writes content_text into the shared table (lines 609, 614,
\* 93), and _visualize_evaluation_results adds the popularity columns when
\* popularity_score is missing (lines 714-718)
CoursesAfterEvaluate(m, test_student_ids, outcome) ==
    IF outcome.kind = "raise" /\ outcome.error \in {NotTrained, "TypeError"}
    THEN m.courses_df
    ELSE IF test_student_ids = <<>> THEN m.courses_df
    ELSE LET f == DataFields(m)
             touched == IF SomeEvaluated(f, test_student_ids)
                        THEN WithContentText(f.courses_df) ELSE f.courses_df
         IN  IF outcome.kind = "return" /\ outcome.value # NoTestStudents
                /\ \E i \in 1..Len(touched) : "popularity_score" \notin DOMAIN touched[i]
             THEN Some(CalculateCoursePopularity(touched, f.course_history_df))
             ELSE Some(touched)

----------------------------------------------------------------------------
(* The instance and its operations                                         *)

Instance ==
    [courses_df |-> courses_df,
     students_df |-> students_df,
     course_history_df |-> course_history_df,
     course_content_matrix |-> course_content_matrix,
     course_similarity_matrix |-> course_similarity_matrix,
     student_course_matrix |-> student_course_matrix]

Idle == [op |-> "none"]

NoResult == [kind |-> "none"]

NoFiles ==
    [courses |-> None, course_content |-> None,
     student_course_matrix |-> None, student_preprocessor |-> None]

FileNames == {"courses", "course_content", "student_course_matrix", "student_preprocessor"}

\* __init__: every data container and model component is None
Init ==
    /\ csv \in Datasets
    /\ disk = NoFiles
    /\ courses_df = None
    /\ students_df = None
    /\ course_history_df = None
    /\ course_content_matrix = None
    /\ course_similarity_matrix = None
    /\ student_course_matrix = None
    /\ student_preprocessor = None
    /\ called = {}
    /\ call = Idle
    /\ locals = None
    /\ result = NoResult
    /\ first = NoResult

\* a new process constructs its instance; the files of model_dir stay
NewInstance ==
    /\ call = Idle
    /\ courses_df' = None
    /\ students_df' = None
    /\ course_history_df' = None
    /\ course_content_matrix' = None
    /\ course_similarity_matrix' = None
    /\ student_course_matrix' = None
    /\ student_preprocessor' = None
    /\ called' = {}
    /\ call' = [op |-> "__init__"]
    /\ locals' = None
    /\ result' = Return(None)
    /\ UNCHANGED <<csv, disk, first>>

\* load_data(courses_path, students_path, course_history_path)
LoadData ==
    /\ call = Idle
    /\ courses_df' = Some(csv.courses)
    /\ students_df' = Some(csv.students)
    /\ course_history_df' = Some(csv.history)
    /\ call' = [op |-> "load_data"]
    /\ locals' = None
    /\ result' = Return(None)
    /\ UNCHANGED <<csv, disk, course_content_matrix, course_similarity_matrix,
                   student_course_matrix, student_preprocessor, called, first>>

\* is some data container still None (line 78)
DataMissing(c, s, h) == c = None \/ s = None \/ h = None

\* preprocess_data()
PreprocessData ==
    /\ call = Idle
    /\ call' = [op |-> "preprocess_data"]
    /\ locals' = None
    /\ called' = called \cup {"preprocess_data"}
    /\ IF DataMissing(courses_df, students_df, course_history_df)
       THEN /\ result' = Raise("ValueError: Data must be loaded first")
            /\ UNCHANGED model
       ELSE /\ courses_df' = Some(WithContentText(courses_df[1]))
            /\ course_content_matrix' = Some(CourseContentMatrix(courses_df[1]))
            /\ course_similarity_matrix' =
                   Some(CourseSimilarityMatrix(CourseContentMatrix(courses_df[1])))
            /\ student_course_matrix' = Some(StudentCourseMatrix(course_history_df[1]))
            /\ student_preprocessor' = Some("fitted")
            /\ result' = Return(None)
            /\ UNCHANGED <<students_df, course_history_df>>
    /\ UNCHANGED <<csv, disk, first>>

\* courses_df at the end of train (lines 189-196)
TrainedCourses(data) ==
    CalculateCourseDifficulty(
        CalculateCoursePopularity(WithContentText(data.courses), data.history),
        data.history)

\* train(courses_path, students_path, course_history_path), save_model included
Train ==
    /\ call = Idle
    /\ courses_df' = Some(TrainedCourses(csv))
    /\ students_df' = Some(csv.students)
    /\ course_history_df' = Some(csv.history)
    /\ course_content_matrix' = Some(CourseContentMatrix(csv.courses))
    /\ course_similarity_matrix' = Some(CourseSimilarityMatrix(CourseContentMatrix(csv.courses)))
    /\ student_course_matrix' = Some(StudentCourseMatrix(csv.history))
    /\ student_preprocessor' = Some("fitted")
    /\ disk' = [courses |-> courses_df',
                course_content |-> Some([content_matrix |-> course_content_matrix'[1],
                                         similarity_matrix |-> course_similarity_matrix'[1]]),
                student_course_matrix |-> student_course_matrix',
                student_preprocessor |-> student_preprocessor']
    /\ call' = [op |-> "train"]
    /\ locals' = None
    /\ called' = called \cup {"train"}
    /\ result' = Return([n_students |-> Len(csv.students),
                         n_courses |-> Len(csv.courses),
                         n_interactions |-> Len(csv.history)])
    /\ UNCHANGED <<csv, first>>

\* one pickle file of model_dir is removed (outside the program) before a
\* process constructs its instance
RemoveFile ==
    /\ call = Idle
    /\ \A f \in DOMAIN Instance : Instance[f] = None
    /\ \A n \in FileNames : disk[n] # None
    /\ \E n \in FileNames : disk' = [disk EXCEPT ![n] = None]
    /\ UNCHANGED <<csv, model, called, call, locals, result, first>>

\* load_model(): the files are read in the order courses, course_content,
\* student_course_matrix, student_preprocessor; the first missing one ends
\* the call with False, the fields read before it stay set
LoadModel ==
    /\ call = Idle
    /\ call' = [op |-> "load_model"]
    /\ locals' = None
    /\ called' = called \cup {"load_model"}
    /\ LET ok1 == disk.courses # None
           ok2 == ok1 /\ disk.course_content # None
           ok3 == ok2 /\ disk.student_course_matrix # None
           ok4 == ok3 /\ disk.student_preprocessor # None
       IN  /\ courses_df' = IF ok1 THEN disk.courses ELSE courses_df
           /\ course_content_matrix' =
                  IF ok2 THEN Some(disk.course_content[1].content_matrix)
                  ELSE course_content_matrix
           /\ course_similarity_matrix' =
                  IF ok2 THEN Some(disk.course_content[1].similarity_matrix)
                  ELSE course_similarity_matrix
           /\ student_course_matrix' =
                  IF ok3 THEN disk.student_course_matrix ELSE student_course_matrix
           /\ student_preprocessor' =
                  IF ok4 THEN disk.student_preprocessor ELSE student_preprocessor
           /\ result' = Return(ok4)
    /\ UNCHANGED <<csv, disk, students_df, course_history_df, first>>

\* the arguments of the calls
StudentIds == {"s1", "s2", "s3"}

DifficultyFilters == {NoFilter} \cup Difficulties

EvaluateArguments ==
    {None, Some(<<>>), Some(<<"s1">>), Some(<<"s2">>), Some(<<"s3", "s1", "s2">>)}

\* the sequences of k distinct elements of the sequence ids
Samples(ids, k) ==
    {[i \in 1..k |-> ids[p[i]]] : p \in {q \in [1..k -> 1..Len(ids)] :
                                            \A a, b \in 1..k : a # b => q[a] # q[b]}}

\* the cohorts evaluate can work on: the list given, or a sample of 20% of
\* the students (np.random.choice, size=int(len(all_students)*0.2))
TestCohorts(m, argument) ==
    IF argument # None THEN {argument[1]}
    ELSE IF m.students_df = None THEN {<<>>}
    ELSE LET all_students ==
                 Unique([i \in 1..Len(m.students_df[1]) |-> m.students_df[1][i].student_id])
         IN  Samples(all_students, (Len(all_students) * 2) \div 10)

\* the choices of list(student_courses)[-1], one per test student: any
\* element of the set (the iteration order of a set of strings is not fixed)
Holdouts(m, test_student_ids) ==
    IF m.course_history_df = None
    THEN {[s \in Range(test_student_ids) |-> CourseOrder[1]]}
    ELSE LET choices == [s \in Range(test_student_ids) |->
                            IF TooFewCourses(m.course_history_df[1], s)
                            THEN {CourseOrder[1]}
                            ELSE StudentCourses(m.course_history_df[1], s)]
         IN  {h \in [Range(test_student_ids) ->
                        UNION {choices[s] : s \in Range(test_student_ids)}] :
                 \A s \in Range(test_student_ids) : h[s] \in choices[s]}

\* the queries of the direct calls of the content-based recommender
Queries ==
    { [interests |-> <<"prog">>, department |-> "cs"],
      [interests |-> <<>>, department |-> "math"] }

\* _get_content_based_recommendations called on instance m: what it returns
\* or raises (the vectorizer is used first, then the history and the course
\* table)
ContentBased(m, student_id, interests, department, limit) ==
    IF m.course_content_matrix = None THEN Raise("AttributeError")
    ELSE IF m.course_history_df = None \/ m.courses_df = None THEN Raise("TypeError")
    ELSE Return(ContentBasedRecommendations(
                    [courses_df |-> m.courses_df[1],
                     course_history_df |-> m.course_history_df[1],
                     course_content_matrix |-> m.course_content_matrix[1],
                     course_similarity_matrix |-> m.course_similarity_matrix[1]],
                    student_id, interests, department, limit))

\* _get_content_based_recommendations(student_id, interests, department, limit)
ContentBasedCall ==
    /\ call = Idle
    /\ \E student_id \in StudentIds, query \in Queries, limit \in 0..MaxLimit :
          /\ call' = [op |-> "_get_content_based_recommendations",
                      student_id |-> student_id, interests |-> query.interests,
                      department |-> query.department, limit |-> limit]
          /\ result' = ContentBased(Instance, student_id, query.interests,
                                    query.department, limit)
    /\ locals' = None
    /\ first' = NoResult
    /\ UNCHANGED <<csv, disk, model, called>>

\* recommend_courses(student_id, limit, exclude_taken, difficulty_filter)
RecommendCoursesCall ==
    /\ call = Idle
    /\ \E student_id \in StudentIds, limit \in 0..MaxLimit,
          exclude_taken \in BOOLEAN, difficulty_filter \in DifficultyFilters :
          /\ call' = [op |-> "recommend_courses", student_id |-> student_id,
                      limit |-> limit, exclude_taken |-> exclude_taken,
                      difficulty_filter |-> difficulty_filter]
          /\ locals' = RecommendLocals(Instance, student_id, limit, exclude_taken,
                                       difficulty_filter)
          /\ result' = RecommendResult(Instance, student_id, limit, locals')
          /\ course_similarity_matrix' = SimilarityMatrixAfterRecommend(Instance, student_id)
    /\ first' = NoResult
    /\ UNCHANGED <<csv, disk, courses_df, students_df, course_history_df,
                   course_content_matrix, student_course_matrix, student_preprocessor,
                   called>>

\* the caller makes the same recommend_courses call once more
RecommendCoursesAgain ==
    /\ call.op = "recommend_courses"
    /\ first = NoResult
    /\ result.kind = "return"
    /\ first' = result
    /\ locals' = RecommendLocals(Instance, call.student_id, call.limit,
                                 call.exclude_taken, call.difficulty_filter)
    /\ result' = RecommendResult(Instance, call.student_id, call.limit, locals')
    /\ course_similarity_matrix' = SimilarityMatrixAfterRecommend(Instance, call.student_id)
    /\ UNCHANGED <<csv, disk, courses_df, students_df, course_history_df,
                   course_content_matrix, student_course_matrix, student_preprocessor,
                   called, call>>

\* evaluate(test_student_ids)
EvaluateCall ==
    /\ call = Idle
    /\ \E argument \in EvaluateArguments :
          \E test_student_ids \in TestCohorts(Instance, argument) :
             \E holdout \in Holdouts(Instance, test_student_ids) :
                /\ call' = [op |-> "evaluate", test_student_ids |-> argument,
                            cohort |-> test_student_ids, holdout |-> holdout]
                /\ locals' = EvaluateLocals(Instance, argument, test_student_ids, holdout)
                /\ result' = EvaluateOutcome(Instance, argument, test_student_ids, locals')
                /\ courses_df' = CoursesAfterEvaluate(Instance, test_student_ids, result')
    /\ first' = NoResult
    /\ UNCHANGED <<csv, disk, students_df, course_history_df, course_content_matrix,
                   course_similarity_matrix, student_course_matrix, student_preprocessor,
                   called>>

\* the call is over: its result has been handed to the caller
ReturnToCaller ==
    /\ call # Idle
    /\ call' = Idle
    /\ locals' = None
    /\ result' = NoResult
    /\ first' = NoResult
    /\ UNCHANGED <<csv, disk, model, called>>

Next ==
    \/ NewInstance
    \/ LoadData
    \/ PreprocessData
    \/ Train
    \/ RemoveFile
    \/ LoadModel
    \/ ContentBasedCall
    \/ RecommendCoursesCall
    \/ RecommendCoursesAgain
    \/ EvaluateCall
    \/ ReturnToCaller

Spec == Init /\ [][Next]_vars

----------------------------------------------------------------------------
(* Properties of recommend_courses                                         *)

\* a recommend_courses call has returned its list
Recommended == call.op = "recommend_courses" /\ result.kind = "return"

\* the courses of the course-history records of student s
HistoryOf(s) ==
    {course_history_df[1][k].course_id :
        k \in {n \in 1..Len(course_history_df[1]) :
                  course_history_df[1][n].student_id = s}}

\* the row of course c in self.courses_df
CourseRow(c) ==
    courses_df[1][CHOOSE i \in 1..Len(courses_df[1]) : courses_df[1][i].course_id = c]

\* the courses of a list of <<course, score>> pairs
CoursesIn(recs) == {recs[i][1] : i \in 1..Len(recs)}

\* C1: a recommend_courses call with exclude_taken=true returns no course for
\* which the student has a course-history record, whatever the limit and the
\* difficulty filter are
C1_NoTakenCourseReturned ==
    (Recommended /\ call.exclude_taken) =>
        \A i \in 1..Len(result.value) :
            result.value[i].courseId \notin HistoryOf(call.student_id)

\* a list is returned to a student of whose taken courses one was among the
\* content-based recommendations of the call
C1_Witness ==
    /\ Recommended /\ call.exclude_taken
    /\ Len(result.value) > 0
    /\ CoursesIn(locals[1].content_based_recs) \cap HistoryOf(call.student_id) # {}

\* C2: with exclude_taken=true the prerequisites of every returned course are
\* all courses of the student's history; a student with an empty history gets
\* no course that has a prerequisite
C2_PrerequisitesInHistory ==
    (Recommended /\ call.exclude_taken) =>
        \A i \in 1..Len(result.value) :
            /\ CourseRow(result.value[i].courseId).prerequisites
                   \subseteq HistoryOf(call.student_id)
            /\ HistoryOf(call.student_id) = {} =>
                   CourseRow(result.value[i].courseId).prerequisites = {}

\* a course with a prerequisite is returned while another fused course is
\* dropped for a prerequisite the student has not taken
C2_Witness ==
    /\ Recommended /\ call.exclude_taken
    /\ \E i \in 1..Len(result.value) :
           CourseRow(result.value[i].courseId).prerequisites # {}
    /\ \E c \in CoursesIn(locals[1].all_recs) :
           ~(CourseRow(c).prerequisites \subseteq HistoryOf(call.student_id))

\* C3: with a difficulty filter D every returned course has the difficulty
\* tier D, in the record returned and in the course table
C3_DifficultyFilterExact ==
    (Recommended /\ call.difficulty_filter # NoFilter) =>
        \A i \in 1..Len(result.value) :
            /\ result.value[i].difficulty = call.difficulty_filter
            /\ CourseRow(result.value[i].courseId).difficulty = call.difficulty_filter

\* a filtered call returns a course while a fused course of another tier is
\* left out
C3_Witness ==
    /\ Recommended /\ call.difficulty_filter # NoFilter
    /\ Len(result.value) > 0
    /\ \E c \in CoursesIn(locals[1].all_recs) :
           CourseRow(c).difficulty # call.difficulty_filter

\* the final score of course c in filtered_courses
FinalScoreOf(c) ==
    LET fc == locals[1].filtered_courses.value
    IN  fc[CHOOSE k \in 1..Len(fc) : fc[k][1] = c][2]

\* is r the integer nearest to n/d, the even one of the two when n/d is
\* half-way between them
IsRounded(r, n, d) ==
    \/ 2 * n - 2 * r * d < d /\ 2 * r * d - 2 * n < d
    \/ 2 * n - 2 * r * d = d /\ r % 2 = 0
    \/ 2 * r * d - 2 * n = d /\ r % 2 = 0

\* C4: matchScore of every returned record is an integer from 0 to 100, the
\* smaller of 100 and the rounded 100 * final_score, where final_score is the
\* score the course was ranked with (which is not capped)
C4_MatchScoreClamped ==
    Recommended =>
        \A i \in 1..Len(result.value) :
            LET score == FinalScoreOf(result.value[i].courseId)
                shown == result.value[i].matchScore
            IN  /\ shown \in 0..100
                /\ IF score * 100 >= 100 * One
                   THEN shown = 100
                   ELSE IsRounded(shown, score * 100, One)

\* a course ranked with a final score above 1.0 is returned with matchScore 100
C4_Witness ==
    /\ Recommended
    /\ \E i \in 1..Len(result.value) :
           /\ FinalScoreOf(result.value[i].courseId) * 100 > 100 * One + One
           /\ result.value[i].matchScore = 100

\* does the candidate at position a of fc rank before the one at position b:
\* a higher final score, or the same score and an earlier insertion
RanksBefore(fc, a, b) == fc[a][2] > fc[b][2] \/ (fc[a][2] = fc[b][2] /\ a < b)

\* C5: the returned list has min(limit, number of candidates) records, at
\* most limit; its courses are the candidates that survived the filters of
\* the loop, in non-increasing order of final score with ties in insertion
\* order, and no candidate left out ranks before a returned one
C5_TopLimitByFinalScore ==
    Recommended =>
        LET fc == locals[1].filtered_courses.value
            n == Len(result.value)
            pos == [i \in 1..n |->
                       CHOOSE k \in 0..Len(fc) :
                           \/ k > 0 /\ fc[k][1] = result.value[i].courseId
                           \/ k = 0 /\ \A j \in 1..Len(fc) :
                                           fc[j][1] # result.value[i].courseId]
        IN  /\ n <= call.limit
            /\ n = IF Len(fc) < call.limit THEN Len(fc) ELSE call.limit
            /\ \A i \in 1..n : pos[i] > 0
            /\ \A i, j \in 1..n : i < j => RanksBefore(fc, pos[i], pos[j])
            /\ \A i \in 1..n : fc[pos[i]][2] >= (IF i < n THEN fc[pos[i + 1]][2] ELSE 0)
            /\ \A k \in 1..Len(fc) :
                   (\A i \in 1..n : pos[i] # k) =>
                       \A i \in 1..n : RanksBefore(fc, pos[i], k)

\* more candidates than limit survive, not in the order of their scores, and
\* two of them tie
C5_Witness ==
    /\ Recommended
    /\ call.limit >= 1
    /\ LET fc == locals[1].filtered_courses.value
       IN  /\ Len(fc) > call.limit
           /\ \E a, b \in 1..Len(fc) : a < b /\ fc[a][2] < fc[b][2]

\* C6: the second of two recommend_courses calls with the same arguments on
\* unchanged data returns the list the first one returned, the same records
\* in the same order with the same matchScore values
C6_SameCallSameList ==
    first # NoResult => result = first

\* the call is repeated for a student with taken courses of the course table
\* (the loop of lines 426-433 runs), and the list is not empty
C6_Witness ==
    /\ first # NoResult
    /\ Len(first.value) > 0
    /\ \E c \in HistoryOf(call.student_id) :
           \E i \in 1..Len(courses_df[1]) : courses_df[1][i].course_id = c

----------------------------------------------------------------------------
(* Properties of the readiness check and of the unknown student            *)

\* recommend_courses or evaluate has been called and has ended
Answered == call.op \in {"recommend_courses", "evaluate"}

\* C7 as stated: on an instance on which neither train nor load_model has
\* been called, recommend_courses and evaluate raise the model-not-ready error
C7_NotReadyWithoutTrainOrLoad ==
    (Answered /\ called \cap {"train", "load_model"} = {}) =>
        result = Raise(NotTrained)

\* C7, amended: on an instance on which none of train, load_model and
\* preprocess_data has been called (load_data may have been),
\* recommend_courses and evaluate raise the model-not-ready error: they
\* return no list and no metrics
C7_NotReadyWithoutPreprocessing ==
    (Answered /\ called \cap {"train", "load_model", "preprocess_data"} = {}) =>
        result = Raise(NotTrained)

\* the not-ready error is raised on an instance whose data has been loaded
C7_Witness ==
    /\ Answered
    /\ called = {}
    /\ courses_df # None
    /\ result = Raise(NotTrained)

\* the student of the call has no row in the students table
UnknownStudent ==
    \A i \in 1..Len(students_df[1]) : students_df[1][i].student_id # call.student_id

\* C8 as stated: recommend_courses on a trained model for a student who is
\* not in the students table does not fail, it returns a list
C8_UnknownStudentServed ==
    (call.op = "recommend_courses" /\ "train" \in called /\ UnknownStudent) =>
        result.kind = "return"

----------------------------------------------------------------------------
(* Properties of the collaborative signal and of evaluate                  *)

\* the student of the call has no row in the interaction matrix, or a row
\* of zeros
NoInteractions ==
    LET scm == student_course_matrix[1]
    IN  \/ \A k \in 1..Len(scm.index) : scm.index[k] # call.student_id
        \/ \A j \in 1..Len(scm.columns) : scm.cell[call.student_id][scm.columns[j]] = 0

\* C9: for a student without a row in the interaction matrix, or with a row
\* that sums to zero, collaborative_recs is empty and all_recs holds exactly
\* the content-based recommendations that are not taken, each with 0.4 times
\* its content score
C9_NoCollaborativeSignal ==
    (call.op = "recommend_courses" /\ locals # None /\ NoInteractions) =>
        LET content == locals[1].content_based_recs
            kept == SelectSeq(content, LAMBDA r : r[1] \notin locals[1].taken_courses)
        IN  /\ locals[1].collaborative_recs = <<>>
            /\ locals[1].all_recs =
                   [i \in 1..Len(kept) |-> <<kept[i][1], (4 * kept[i][2]) \div 10>>]

\* a student with a row of zeros gets a list while another student has a
\* course rated above 3 to propagate
C9_Witness ==
    /\ Recommended /\ NoInteractions
    /\ Len(result.value) > 0
    /\ \E k \in 1..Len(student_course_matrix[1].index) :
           student_course_matrix[1].index[k] = call.student_id
    /\ \E o \in Range(student_course_matrix[1].index) :
           \E j \in 1..Len(student_course_matrix[1].columns) :
               student_course_matrix[1].cell[o][student_course_matrix[1].columns[j]] > 3 * 4

\* the test students of the call that have at least 2 distinct courses in
\* the course history, as positions of the cohort
Suitable ==
    {i \in 1..Len(call.cohort) : Cardinality(HistoryOf(call.cohort[i])) >= 2}

\* C10: evaluate (model ready, data loaded) counts only the test students
\* with at least 2 courses in history; when there is none, for an empty
\* cohort too, it returns {'error': 'No suitable test students found'}: it
\* does not raise and computes no metric
C10_SkipsStudentsWithOneCourse ==
    (call.op = "evaluate" /\ ~NotReady(Instance) /\ course_history_df # None) =>
        /\ Suitable = {} => result = Return(NoTestStudents)
        /\ (Suitable # {} /\ result.kind = "return") =>
               /\ "num_test_students" \in DOMAIN result.value
               /\ result.value.num_test_students = Cardinality(Suitable)

\* every student of a cohort that is not empty has fewer than 2 courses, one
\* of them exactly 1, and the structured result is returned
C10_Witness ==
    /\ call.op = "evaluate" /\ ~NotReady(Instance) /\ course_history_df # None
    /\ call.cohort # <<>>
    /\ Suitable = {}
    /\ \E i \in 1..Len(call.cohort) : Cardinality(HistoryOf(call.cohort[i])) = 1
    /\ result = Return(NoTestStudents)

----------------------------------------------------------------------------
(* Properties of the taken set, the rating and the prerequisites           *)

\* C11: with exclude_taken=false the taken set of the call is empty, so no
\* returned course has a prerequisite, even when the student's history holds
\* all the prerequisites of a fused course; history courses may be returned
C11_NoPrerequisiteCourseWithoutExclusion ==
    (call.op = "recommend_courses" /\ ~call.exclude_taken /\ locals # None) =>
        /\ locals[1].taken_courses = {}
        /\ Recommended =>
               \A i \in 1..Len(result.value) :
                   CourseRow(result.value[i].courseId).prerequisites = {}

\* a course of the student's history is returned while a fused course whose
\* prerequisites are all in that history is left out
C11_Witness ==
    /\ Recommended /\ ~call.exclude_taken
    /\ \E i \in 1..Len(result.value) :
           result.value[i].courseId \in HistoryOf(call.student_id)
    /\ \E c \in CoursesIn(locals[1].all_recs) :
           /\ CourseRow(c).prerequisites # {}
           /\ CourseRow(c).prerequisites \subseteq HistoryOf(call.student_id)
           /\ \A i \in 1..Len(result.value) : result.value[i].courseId # c

\* C12 as stated: in every record returned after train, rating is the mean
\* of the student ratings recorded for the course in the course history, and
\* None for a course without a recorded rating
C12_RatingIsRecordedAverage ==
    (Recommended /\ "train" \in called /\ courses_df = Some(TrainedCourses(csv))) =>
        \A i \in 1..Len(result.value) :
            result.value[i].rating =
                IF MeanRating(course_history_df[1], result.value[i].courseId) = NaN
                THEN None
                ELSE Some(MeanRating(course_history_df[1], result.value[i].courseId))

\* C13 as stated: a course with a prerequisite that is not a course of the
\* loaded course table is never returned, whatever the student and the
\* course history are
C13_MissingPrerequisiteNeverMet ==
    Recommended =>
        \A i \in 1..Len(result.value) :
            \A prereq \in CourseRow(result.value[i].courseId).prerequisites :
                \E k \in 1..Len(courses_df[1]) : courses_df[1][k].course_id = prereq

----------------------------------------------------------------------------
(* Properties of the evaluation metrics and of the interaction matrix      *)

\* evaluate has returned metrics for at least one evaluated test student
Evaluated ==
    /\ call.op = "evaluate" /\ result.kind = "return"
    /\ locals # None /\ locals[1].results # <<>>

\* 1-based position of the held-out course of entry e of results in its
\* candidate list, 0 when it is not among the candidates
PositionOf(e) ==
    IF \E k \in 1..Len(e.rec_courses) : e.rec_courses[k] = e.test_course
    THEN CHOOSE k \in 1..Len(e.rec_courses) :
             /\ e.rec_courses[k] = e.test_course
             /\ \A j \in 1..(k - 1) : e.rec_courses[j] # e.test_course
    ELSE 0

\* number of the entries of results whose position is in 1..k
WithinTop(k) ==
    Cardinality({i \in 1..Len(locals[1].results) :
                    PositionOf(locals[1].results[i]) \in 1..k})

\* C14: when a test student is evaluated, evaluate returns
\* hit_rate = hits / n, precision_at_5 = (number with rank <= 5) / n,
\* precision_at_10 = (number with rank <= 10) / n,
\* mrr = (sum of 1/rank over the hits) / n and num_test_students = n, where n
\* is the number of test students with at least 2 courses and rank the
\* 1-based position of the held-out course among at most 20 candidates
C14_MetricsAreMeans ==
    Evaluated =>
        LET results == locals[1].results
            n == Len(results)
        IN  /\ n = Cardinality(Suitable)
            /\ \A i \in 1..n : Len(results[i].rec_courses) <= 20
            /\ result.value =
                   [hit_rate |-> (One * WithinTop(20)) \div n,
                    precision_at_5 |-> (One * WithinTop(5)) \div n,
                    precision_at_10 |-> (One * WithinTop(10)) \div n,
                    mrr |-> SumSeq([i \in 1..n |->
                                IF PositionOf(results[i]) = 0 THEN 0
                                ELSE One \div PositionOf(results[i])]) \div n,
                    num_test_students |-> n]

\* two students are evaluated, one with the held-out course at a position
\* from 6 to 10 and one with it among the first 5
C14_Witness ==
    /\ Evaluated
    /\ Len(locals[1].results) = 2
    /\ \E i, j \in 1..2 :
           /\ PositionOf(locals[1].results[i]) \in 6..10
           /\ PositionOf(locals[1].results[j]) \in 1..5
    /\ result.value.precision_at_5 = One \div 2
    /\ result.value.precision_at_10 = One

\* the course-history records of student s for course c in the CSV file
RecordsOf(s, c) ==
    {k \in 1..Len(csv.history) :
        csv.history[k].student_id = s /\ csv.history[k].course_id = c}

\* the interaction value of record k in quarter points: the student rating,
\* or 5/4 of the grade value when no rating is recorded
ValueOf(k) ==
    IF csv.history[k].student_rating # NaN
    THEN 4 * csv.history[k].student_rating
    ELSE (5 * csv.history[k].grade_value * 4) \div (4 * 10)

RECURSIVE TotalOf(_)
\* the sum of the interaction values of a set of records
TotalOf(records) ==
    IF records = {} THEN 0
    ELSE LET k == CHOOSE x \in records : TRUE
         IN  ValueOf(k) + TotalOf(records \ {k})

\* C15: once training or preprocessing has built the interaction matrix,
\* every cell lies in [0, 5], is 0 for a pair without a course-history
\* record, and is the mean of the interaction values of the records of a pair
\* that has some
C15_InteractionCellsInRange ==
    student_course_matrix # None =>
        LET scm == student_course_matrix[1]
        IN  \A s \in Range(scm.index) : \A c \in Range(scm.columns) :
                LET records == RecordsOf(s, c)
                    total == TotalOf(records)
                IN  /\ scm.cell[s][c] \in 0..(5 * 4)
                    /\ records = {} => scm.cell[s][c] = 0
                    /\ records # {} =>
                           /\ Cardinality(records) * scm.cell[s][c] <= total
                           /\ total < Cardinality(records) * (scm.cell[s][c] + 1)

\* train has just built a matrix with a cell for a pair with two records of
\* different values and a cell for a pair without a record
C15_Witness ==
    /\ call.op = "train"
    /\ student_course_matrix # None
    /\ \E s \in Range(student_course_matrix[1].index) :
           \E c, d \in Range(student_course_matrix[1].columns) :
               /\ \E k, n \in RecordsOf(s, c) : ValueOf(k) # ValueOf(n)
               /\ RecordsOf(s, d) = {}

----------------------------------------------------------------------------
(* Properties of a restored instance and of the scores                     *)

\* the instance was restored by load_model with all four files (neither
\* train nor preprocess_data has run on it), and load_data has replaced the
\* restored course table since (the difficulty columns of train are gone)
RestoredThenLoaded ==
    /\ "load_model" \in called
    /\ called \cap {"train", "preprocess_data"} = {}
    /\ student_preprocessor # None
    /\ students_df # None
    /\ \A i \in 1..Len(courses_df[1]) : "difficulty_score" \notin DOMAIN courses_df[1][i]

\* C16 as stated: after load_model (returning True) and then load_data,
\* recommend_courses for a student of the students table returns a list,
\* whether or not evaluate has been called in between
C16_RestoredThenLoadedRecommends ==
    (call.op = "recommend_courses" /\ RestoredThenLoaded /\ ~UnknownStudent) =>
        result.kind = "return"

\* the score of course c in a list of <<course, score>> pairs that holds it
ScoreIn(recs, c) == recs[CHOOSE k \in 1..Len(recs) : recs[k][1] = c][2]

\* the part of the fused score of course c that a recommendation list
\* contributes with a weight of tenths/10
Contribution(recs, tenths, c) ==
    IF c \in CoursesIn(recs) THEN (tenths * ScoreIn(recs, c)) \div 10 ELSE 0

\* C17: the fused candidates are the courses of the two lists that are not
\* taken; the fused score is 0.4 * content score for a course of the content
\* list only, 0.6 * collaborative score for a course of the collaborative
\* list only, and the sum of the two for a course of both; with an empty
\* collaborative list every fused score is 0.4 * content score, and the call
\* returns its list when the course table has its popularity column
C17_FusedScoreWeights ==
    (call.op = "recommend_courses" /\ locals # None) =>
        LET l == locals[1]
        IN  /\ CoursesIn(l.all_recs) =
                   (CoursesIn(l.content_based_recs) \cup CoursesIn(l.collaborative_recs))
                       \ l.taken_courses
            /\ \A k \in 1..Len(l.all_recs) :
                   /\ l.all_recs[k][2] =
                          Contribution(l.content_based_recs, 4, l.all_recs[k][1])
                          + Contribution(l.collaborative_recs, 6, l.all_recs[k][1])
                   /\ \A j \in 1..Len(l.all_recs) :
                          l.all_recs[j][1] = l.all_recs[k][1] => j = k
            /\ l.collaborative_recs = <<>> =>
                   /\ \A k \in 1..Len(l.all_recs) :
                          l.all_recs[k][2] =
                              (4 * ScoreIn(l.content_based_recs, l.all_recs[k][1])) \div 10
                   /\ (\A i \in 1..Len(courses_df[1]) :
                           "popularity_score" \in DOMAIN courses_df[1][i])
                          => result.kind = "return"

\* a list is returned for which one fused course is in both lists and
\* another one in the content-based list only
C17_Witness ==
    /\ Recommended
    /\ \E c, d \in CoursesIn(locals[1].all_recs) :
           /\ c \in CoursesIn(locals[1].content_based_recs)
           /\ c \in CoursesIn(locals[1].collaborative_recs)
           /\ ScoreIn(locals[1].collaborative_recs, c) > 0
           /\ d \in CoursesIn(locals[1].content_based_recs)
           /\ d \notin CoursesIn(locals[1].collaborative_recs)

\* year_of_study of the student of the call
YearOfStudy ==
    students_df[1][CHOOSE i \in 1..Len(students_df[1]) :
                       students_df[1][i].student_id = call.student_id].year_of_study

\* the level boost of course c for the student of the call: 1.2 when the
\* hundreds of the level equal the year of study, 1.0 otherwise
Boost(c) == IF CourseRow(c).level \div 100 = YearOfStudy THEN (12 * One) \div 10 ELSE One

\* C18: every candidate that passes the filters has
\* final_score = 0.6 * fused_score + 0.2 * (0.2 * popularity_score)
\*               + 0.2 * level_match,
\* with level_match 1.2 exactly when level // 100 equals the student's year of
\* study and 1.0 otherwise; a student with a year outside 1..4 never gets 1.2
C18_FinalScoreFormula ==
    (call.op = "recommend_courses" /\ locals # None
        /\ locals[1].filtered_courses.kind = "return") =>
        LET fc == locals[1].filtered_courses.value
        IN  \A k \in 1..Len(fc) :
                /\ fc[k][2] =
                       (6 * ScoreIn(locals[1].all_recs, fc[k][1])) \div 10
                       + (2 * ((2 * CourseRow(fc[k][1]).popularity_score) \div 10)) \div 10
                       + (2 * Boost(fc[k][1])) \div 10
                /\ YearOfStudy \notin 1..4 => Boost(fc[k][1]) = One

\* one candidate gets the level boost, another does not, and both have a
\* popularity score above 0
C18_Witness ==
    /\ Recommended
    /\ \E a, b \in 1..Len(locals[1].filtered_courses.value) :
           LET fc == locals[1].filtered_courses.value
           IN  /\ Boost(fc[a][1]) > One
               /\ Boost(fc[b][1]) = One
               /\ CourseRow(fc[a][1]).popularity_score > 0
               /\ CourseRow(fc[b][1]).popularity_score > 0

----------------------------------------------------------------------------
(* Properties of the two recommenders                                      *)

\* the content-based recommender has been called directly and has returned
ContentReturned ==
    call.op = "_get_content_based_recommendations" /\ result.kind = "return"

\* the rows of the course table whose course is in the history of the
\* student of the call
HistoryRows ==
    {i \in 1..Len(courses_df[1]) : courses_df[1][i].course_id \in HistoryOf(call.student_id)}

RECURSIVE HalfSimilarity(_, _)
\* 0.5 times the similarity of course row i to every course row of a set
HalfSimilarity(rows, i) ==
    IF rows = {} THEN 0
    ELSE LET h == CHOOSE x \in rows : TRUE
         IN  course_similarity_matrix[1][h][i] \div 2 + HalfSimilarity(rows \ {h}, i)

\* the similarity of the query of the call to course row i
QuerySimilarity(i) ==
    LET cm == course_content_matrix[1]
    IN  Cosine(Transform(cm.vocabulary, QueryText(call.interests, call.department)),
               cm.rows[i], cm.vocabulary)

\* the content score of course row i for the call
ContentScore(i) == QuerySimilarity(i) + HalfSimilarity(HistoryRows, i)

\* does course row a rank before course row b under the scores of the rows
ScoreBefore(score, a, b) ==
    score[a] > score[b] \/ (score[a] = score[b] /\ a < b)

\* does course row a rank before course row b: a higher content score, or
\* the same score and an earlier row of the course table
RowBefore(a, b) ==
    ContentScore(a) > ContentScore(b) \/ (ContentScore(a) = ContentScore(b) /\ a < b)

\* C19: the content-based recommender scores a course with the similarity to
\* the query plus 0.5 times the similarity to every distinct history course
\* of the student that is in the course table (the query similarity alone for
\* a student without history or not in the students table, without an
\* error), and returns the limit highest pairs in descending order of score,
\* ties in the order of the course table
C19_ContentScoresAndOrder ==
    (call.op = "_get_content_based_recommendations"
        /\ course_content_matrix # None /\ course_history_df # None
        /\ courses_df # None) =>
        /\ result.kind = "return"
        /\ LET n == Len(result.value)
               row == <<>> \o [k \in 1..n |->
                          CHOOSE i \in 1..Len(courses_df[1]) :
                              courses_df[1][i].course_id = result.value[k][1]]
               score == <<>> \o [i \in 1..Len(courses_df[1]) |-> ContentScore(i)]
           IN  /\ n = IF Len(courses_df[1]) < call.limit
                      THEN Len(courses_df[1]) ELSE call.limit
               /\ \A k \in 1..n : result.value[k][2] = score[row[k]]
               /\ HistoryOf(call.student_id) = {} =>
                      \A k \in 1..n : result.value[k][2] = QuerySimilarity(row[k])
               /\ \A j, k \in 1..n : j < k => ScoreBefore(score, row[j], row[k])
               /\ \A i \in 1..Len(courses_df[1]) :
                      (\A k \in 1..n : row[k] # i) =>
                          \A k \in 1..n : ScoreBefore(score, row[k], i)

\* the recommender is called for a student with two history records of one
\* course of the table and with a history course that is not in the table,
\* more courses than limit are scored, and two of them tie
C19_Witness ==
    /\ ContentReturned
    /\ call.limit >= 1 /\ Len(courses_df[1]) > call.limit
    /\ \E k, n \in 1..Len(course_history_df[1]) :
           /\ k # n
           /\ course_history_df[1][k].student_id = call.student_id
           /\ course_history_df[1][n].student_id = call.student_id
           /\ course_history_df[1][k].course_id = course_history_df[1][n].course_id
    /\ \E c \in HistoryOf(call.student_id) :
           \A i \in 1..Len(courses_df[1]) : courses_df[1][i].course_id # c
    /\ \E a, b \in 1..Len(courses_df[1]) : a # b /\ ContentScore(a) = ContentScore(b)

\* the recommender is called for a student who is not in the students table
\* and returns the courses with their query similarity
C19_UnknownStudentWitness ==
    /\ ContentReturned
    /\ UnknownStudent
    /\ Len(result.value) > 0
    /\ result.value[1][2] > 0

\* the collaborative recommender has run inside the recommend_courses call
\* just ended
CollaborativeRan ==
    /\ call.op = "recommend_courses" /\ locals # None
    /\ HasInteractions(student_course_matrix[1], call.student_id)

\* the courses for which both the student of the call and student o have a
\* nonzero interaction value
Shared(o) ==
    LET scm == student_course_matrix[1]
    IN  {c \in Range(scm.columns) : scm.cell[call.student_id][c] # 0 /\ scm.cell[o][c] # 0}

RECURSIVE DotOver(_, _, _)
\* the sum over a set of courses of the products of the values of students
\* a and b
DotOver(set, a, b) ==
    IF set = {} THEN 0
    ELSE LET c == CHOOSE x \in set : TRUE
             scm == student_course_matrix[1]
         IN  scm.cell[a][c] * scm.cell[b][c] + DotOver(set \ {c}, a, b)

\* the cosine of the values of the student of the call and of student o over
\* the courses they share
SharedCosine(o) ==
    LET s == call.student_id
    IN  (One * DotOver(Shared(o), s, o) * 10)
            \div ISqrt(DotOver(Shared(o), s, s) * DotOver(Shared(o), o, o) * 100)

\* the other students student_similarities has a value for
Neighbours ==
    {locals[1].student_similarities[k][1] : k \in 1..Len(locals[1].student_similarities)}

\* C20: the collaborative recommender gives another student a similarity
\* exactly if the two share at least 2 courses with both values nonzero; the
\* similarity is the cosine over the shared courses only, and it is 1.0 if
\* the two have the same values on the shared courses
C20_SimilarityOverSharedCourses ==
    CollaborativeRan =>
        LET scm == student_course_matrix[1]
            sims == locals[1].student_similarities
        IN  /\ \A o \in Range(scm.index) :
                   o \in Neighbours <=>
                       (o # call.student_id /\ Cardinality(Shared(o)) >= 2)
            /\ \A j, k \in 1..Len(sims) : sims[j][1] = sims[k][1] => j = k
            /\ \A k \in 1..Len(sims) :
                   /\ sims[k][1] \in Range(scm.index)
                   /\ sims[k][2] = SharedCosine(sims[k][1])
                   /\ (\A c \in Shared(sims[k][1]) :
                           scm.cell[call.student_id][c] = scm.cell[sims[k][1]][c])
                          => sims[k][2] = One

\* a student gets a similarity of 1.0 with another student who has the same
\* values on their two shared courses and a nonzero value on a third course
C20_Witness ==
    /\ CollaborativeRan
    /\ \E k \in 1..Len(locals[1].student_similarities) :
           LET o == locals[1].student_similarities[k][1]
               scm == student_course_matrix[1]
           IN  /\ Cardinality(Shared(o)) = 2
               /\ \A c \in Shared(o) : scm.cell[call.student_id][c] = scm.cell[o][c]
               /\ \E c \in Range(scm.columns) \ Shared(o) :
                      scm.cell[call.student_id][c] # 0 \/ scm.cell[o][c] # 0
               /\ locals[1].student_similarities[k][2] = One

\* a student gets a similarity below 1.0 with another student
C20_DifferentValuesWitness ==
    /\ CollaborativeRan
    /\ \E k \in 1..Len(locals[1].student_similarities) :
           /\ locals[1].student_similarities[k][2] < One
           /\ locals[1].student_similarities[k][2] > 0

\* a student shares exactly one course with another student and gets no
\* similarity with that student
C20_OneSharedCourseWitness ==
    /\ CollaborativeRan
    /\ \E o \in Range(student_course_matrix[1].index) :
           /\ o # call.student_id
           /\ Cardinality(Shared(o)) = 1
           /\ o \notin Neighbours

\* does position j of student_similarities rank before position k: a higher
\* similarity, or the same similarity and an earlier row of the matrix
NeighbourBefore(j, k) ==
    LET sims == locals[1].student_similarities
    IN  sims[j][2] > sims[k][2] \/ (sims[j][2] = sims[k][2] /\ j < k)

\* the positions of student_similarities with fewer than 10 positions ranking
\* before them
NearestNeighbours ==
    LET n == Len(locals[1].student_similarities)
    IN  {k \in 1..n : Cardinality({j \in 1..n : NeighbourBefore(j, k)}) < 10}

\* the nearest neighbours with a value above 3 for course c
Likers(c) ==
    {k \in NearestNeighbours :
        student_course_matrix[1].cell[locals[1].student_similarities[k][1]][c] > 3 * 4}

\* the courses the collaborative recommender may propose to the student of
\* the call
Candidates ==
    LET scm == student_course_matrix[1]
    IN  {c \in Range(scm.columns) : scm.cell[call.student_id][c] = 0 /\ Likers(c) # {}}

RECURSIVE LikedScore(_, _)
\* the sum over a set of neighbours of similarity * (value / 5) for course c
LikedScore(set, c) ==
    IF set = {} THEN 0
    ELSE LET k == CHOOSE x \in set : TRUE
             sim == locals[1].student_similarities[k]
         IN  (sim[2] * student_course_matrix[1].cell[sim[1]][c]) \div (5 * 4)
                 + LikedScore(set \ {k}, c)

\* C21: the collaborative recommender propagates the courses of the 10 most
\* similar students only; a course is proposed exactly if one of them has a
\* value above 3 for it and the student's own value is 0; its score is the sum
\* of similarity * (value / 5) over these neighbours; the N courses with the
\* highest scores are returned in descending order, none with score 0 or
\* with a nonzero value of the student
C21_CollaborativeCandidatesAndScores ==
    CollaborativeRan =>
        LET recs == locals[1].collaborative_recs
            scm == student_course_matrix[1]
            n == 2 * call.limit
        IN  /\ Cardinality(NearestNeighbours) <= 10
            /\ Len(recs) = IF Cardinality(Candidates) < n
                           THEN Cardinality(Candidates) ELSE n
            /\ \A j, k \in 1..Len(recs) : recs[j][1] = recs[k][1] => j = k
            /\ \A k \in 1..Len(recs) :
                   /\ recs[k][1] \in Candidates
                   /\ recs[k][2] = LikedScore(Likers(recs[k][1]), recs[k][1])
                   /\ recs[k][2] > 0
                   /\ scm.cell[call.student_id][recs[k][1]] = 0
            /\ \A j, k \in 1..Len(recs) : j < k => recs[j][2] >= recs[k][2]
            /\ \A c \in Candidates :
                   (\A k \in 1..Len(recs) : recs[k][1] # c) =>
                       \A k \in 1..Len(recs) : recs[k][2] >= LikedScore(Likers(c), c)

\* a student with 11 similar students gets fewer courses than are proposed;
\* one course has its score from two neighbours, and one course is liked by
\* the least similar student alone and is not proposed
C21_Witness ==
    /\ CollaborativeRan
    /\ Len(locals[1].student_similarities) > 10
    /\ Len(locals[1].collaborative_recs) >= 2
    /\ Len(locals[1].collaborative_recs) < Cardinality(Candidates)
    /\ \E c \in Candidates : Cardinality(Likers(c)) >= 2
    /\ \E c \in Range(student_course_matrix[1].columns) \ Candidates :
           /\ student_course_matrix[1].cell[call.student_id][c] = 0
           /\ \E k \in 1..Len(locals[1].student_similarities) :
                  student_course_matrix[1].cell[locals[1].student_similarities[k][1]][c]
                      > 3 * 4

----------------------------------------------------------------------------
(* Properties of the interaction values and of training                    *)

\* C22: every course-history record has an interaction value in [1, 5] (its
\* rating, or its grade rescaled), so that in the interaction matrix the cell
\* of a pair with a record lies in [1, 5] and differs from the 0 of a pair
\* without a record
C22_RecordedInteractionAtLeastOne ==
    student_course_matrix # None =>
        LET scm == student_course_matrix[1]
        IN  \A s \in Range(scm.index) : \A c \in Range(scm.columns) :
                RecordsOf(s, c) # {} => scm.cell[s][c] \in (1 * 4)..(5 * 4)

\* C23: at the end of train every course has a defined difficulty_score,
\* also when all courses have the same raw difficulty score (max = min)
C23_DifficultyScoreDefined ==
    (call.op = "train" /\ result.kind = "return") =>
        \A i \in 1..Len(courses_df[1]) :
            /\ "difficulty_score" \in DOMAIN courses_df[1][i]
            /\ courses_df[1][i].difficulty_score # NaN

----------------------------------------------------------------------------
(* Properties of the scratch data of evaluate and of the frame of the calls *)

\* is record r a record of the test student of entry e for its held-out course
HeldOut(e, r) == r.student_id = e.student_id /\ r.course_id = e.test_course

\* the number of positions of sequence seq that hold record r
Count(seq, r) == Cardinality({k \in 1..Len(seq) : seq[k] = r})

\* the rows of the course table whose course the scratch history of entry e
\* has a record of for its test student
ScratchRows(e) ==
    {i \in 1..Len(courses_df[1]) :
        \E k \in 1..Len(e.temp_history) :
            /\ e.temp_history[k].student_id = e.student_id
            /\ e.temp_history[k].course_id = courses_df[1][i].course_id}

\* the content score of course row i for the test student of entry e, from
\* the scratch history
ScratchScore(e, i) ==
    LET cm == course_content_matrix[1]
        info == students_df[1][CHOOSE k \in 1..Len(students_df[1]) :
                                   students_df[1][k].student_id = e.student_id]
    IN  Cosine(Transform(cm.vocabulary, QueryText(info.topic_interests, info.department)),
               cm.rows[i], cm.vocabulary)
            + HalfSimilarity(ScratchRows(e), i)

\* C24: for every evaluated student the held-out course is a course of the
\* student's history; the scratch history is the history without the records
\* of that student for that course and with every other record; the
\* candidates are the 20 best content-based recommendations from the scratch
\* history; the course history of the model is the one it had before
C24_HoldoutAndScratchHistory ==
    Evaluated =>
        /\ course_history_df = Some(csv.history)
        /\ \A n \in 1..Len(locals[1].results) :
               LET e == locals[1].results[n]
                   h == course_history_df[1]
                   recs == e.recommendations
                   row == <<>> \o [k \in 1..Len(recs) |->
                              CHOOSE i \in 1..Len(courses_df[1]) :
                                  courses_df[1][i].course_id = recs[k][1]]
                   score == <<>> \o [i \in 1..Len(courses_df[1]) |-> ScratchScore(e, i)]
               IN  /\ \E k \in 1..Len(h) : HeldOut(e, h[k])
                   /\ \A k \in 1..Len(e.temp_history) : ~HeldOut(e, e.temp_history[k])
                   /\ \A k \in 1..Len(h) :
                          ~HeldOut(e, h[k]) => Count(e.temp_history, h[k]) = Count(h, h[k])
                   /\ Len(e.temp_history)
                          = Len(h) - Cardinality({k \in 1..Len(h) : HeldOut(e, h[k])})
                   /\ Len(recs) = IF Len(courses_df[1]) < 20 THEN Len(courses_df[1]) ELSE 20
                   /\ \A k \in 1..Len(recs) : recs[k][2] = score[row[k]]
                   /\ \A j, k \in 1..Len(recs) :
                          j < k => ScoreBefore(score, row[j], row[k])
                   /\ \A i \in 1..Len(courses_df[1]) :
                          (\A k \in 1..Len(recs) : row[k] # i) =>
                              \A k \in 1..Len(recs) : ScoreBefore(score, row[k], i)

\* a student is evaluated on a catalogue of more than 20 courses with a
\* held-out course that the student has two records of and another student
\* has a record of
C24_Witness ==
    /\ Evaluated
    /\ Len(courses_df[1]) > 20
    /\ \E n \in 1..Len(locals[1].results) :
           LET e == locals[1].results[n]
               h == course_history_df[1]
           IN  /\ Len(e.recommendations) = 20
               /\ Cardinality({k \in 1..Len(h) : HeldOut(e, h[k])}) = 2
               /\ \E k \in 1..Len(e.temp_history) :
                      /\ e.temp_history[k].course_id = e.test_course
                      /\ e.temp_history[k].student_id # e.student_id

\* the held-out course is left out of the 20 candidates of a catalogue of
\* more than 20 courses
C24_BeyondTwentyWitness ==
    /\ Evaluated
    /\ \E n \in 1..Len(locals[1].results) :
           /\ Len(locals[1].results[n].recommendations) = 20
           /\ ~locals[1].results[n].hit

\* C25: recommend_courses is read-only: whether it returns or raises, the
\* step of the call leaves the courses, students and course-history tables,
\* the content and similarity matrices, the interaction matrix and the
\* fitted preprocessors exactly as they were before the call
C25_RecommendCoursesReadOnly ==
    [][call'.op = "recommend_courses" => model' = model]_vars

\* recommend_courses has returned a non-empty list for a student with taken
\* courses of the course table: the loop of lines 426-433 has added to
\* similarity_scores
C25_Witness ==
    /\ Recommended
    /\ Len(result.value) > 0
    /\ \E c \in HistoryOf(call.student_id) :
           \E i \in 1..Len(courses_df[1]) : courses_df[1][i].course_id = c

\* recommend_courses has raised on an instance that holds a similarity matrix
C25_RaiseWitness ==
    /\ call.op = "recommend_courses"
    /\ result.kind = "raise"
    /\ course_similarity_matrix # None

\* C26 as stated: evaluate works on scratch copies only: when it returns,
\* the courses table of the evaluated model (its columns and values), its
\* similarity matrix and its interaction matrix are the same as before the
\* call
C26_EvaluateLeavesModelUnchanged ==
    [][(call'.op = "evaluate" /\ result'.kind = "return") =>
           /\ courses_df' = courses_df
           /\ course_similarity_matrix' = course_similarity_matrix
           /\ student_course_matrix' = student_course_matrix]_vars

----------------------------------------------------------------------------
(* Properties of load_model                                                *)

\* load_model has returned True on this instance and neither load_data nor
\* train has been called on it: it holds the restored model and no
\* students or course-history table
RestoredOnly ==
    /\ "load_model" \in called
    /\ student_preprocessor # None
    /\ students_df = None
    /\ course_history_df = None

\* C27 as stated: on an instance that load_model alone has filled,
\* recommend_courses and evaluate never return anything, they fail on the
\* missing tables
C27_RestoredInstanceAlwaysFails ==
    (RestoredOnly /\ Answered) => result.kind = "raise"

\* C27, amended: load_model leaves the students and course-history tables as
\* they were; on an instance that load_model alone has filled the readiness
\* check passes, recommend_courses raises a TypeError on the missing history
\* table, and so does evaluate called with None or with a non-empty list,
\* while evaluate called with an empty list returns the 'No suitable test
\* students found' answer without reading any table
C27_RestoredInstanceCannotServe ==
    [][/\ call'.op = "load_model" =>
              /\ students_df' = students_df
              /\ course_history_df' = course_history_df
       /\ (RestoredOnly' /\ Answered') =>
              /\ course_similarity_matrix' # None
              /\ courses_df' # None /\ course_content_matrix' # None
              /\ student_course_matrix' # None
              /\ result' = IF call'.op = "evaluate" /\ call'.test_student_ids = Some(<<>>)
                           THEN Return(NoTestStudents)
                           ELSE Raise("TypeError")]_vars

\* recommend_courses has been called on an instance that load_model alone
\* has filled
C27_Witness ==
    /\ RestoredOnly
    /\ call.op = "recommend_courses"

\* evaluate has been called with a list of students on such an instance
C27_EvaluateWitness ==
    /\ RestoredOnly
    /\ call.op = "evaluate"
    /\ call.test_student_ids # None
    /\ call.test_student_ids # Some(<<>>)

\* load_model has just returned False on an instance on which nothing else
\* has been called since its construction
FailedLoad ==
    /\ called = {"load_model"}
    /\ students_df = None
    /\ student_preprocessor = None
    /\ \E n \in FileNames : disk[n] = None

\* C28 as stated: when load_model returns False the instance is as it was
\* before the call: on a fresh instance every field is still absent, the
\* similarity matrix among them, and recommend_courses and evaluate still
\* raise the 'Model must be trained first' error, whichever file is missing
C28_FailedLoadChangesNothing ==
    /\ (FailedLoad /\ call.op = "load_model") =>
           /\ result = Return(FALSE)
           /\ \A f \in DOMAIN Instance : Instance[f] = None
    /\ (FailedLoad /\ Answered) => result = Raise(NotTrained)

----------------------------------------------------------------------------
(* Properties of the candidate windows and of the returned scores          *)

\* the content score of every row of the course table for the student of a
\* recommend_courses call: the similarity of the row to the interests and
\* department of the student, plus half its similarity to every history
\* course
StudentContentScores ==
    LET info == StudentInfo(Instance, call.student_id)[1]
        cm == course_content_matrix[1]
        query == Transform(cm.vocabulary, QueryText(info.topic_interests, info.department))
    IN  <<>> \o [i \in 1..Len(courses_df[1]) |->
                    Cosine(query, cm.rows[i], cm.vocabulary)
                        + HalfSimilarity(HistoryRows, i)]

\* the courses among the first n of the content ranking (every course when
\* the table has no more than n): fewer than n rows have a higher score, or
\* the same score and an earlier row
ContentWindow(n) ==
    IF n >= Len(courses_df[1])
    THEN {courses_df[1][i].course_id : i \in 1..Len(courses_df[1])}
    ELSE LET score == StudentContentScores
             rows == 1..Len(score)
         IN  {courses_df[1][i].course_id :
                 i \in {k \in rows :
                           Cardinality({j \in rows : ScoreBefore(score, j, k)}) < n}}

\* the courses a recommend_courses call could return if every course were a
\* candidate: not in the history of the student, of the difficulty asked
\* for, every prerequisite in the history
Eligible ==
    {courses_df[1][i].course_id :
        i \in {k \in 1..Len(courses_df[1]) :
                  /\ courses_df[1][k].course_id \notin HistoryOf(call.student_id)
                  /\ call.difficulty_filter \in {NoFilter, courses_df[1][k].difficulty}
                  /\ courses_df[1][k].prerequisites \subseteq HistoryOf(call.student_id)}}

\* C29: every course returned by recommend_courses for limit L is among the
\* first 2*L of the content-based ranking or among the (at most 2*L)
\* courses of the collaborative ranking, both taken before the taken,
\* difficulty and prerequisite filters; no course outside both windows is
\* returned
C29_ReturnedWithinWindows ==
    Recommended =>
        LET window == ContentWindow(2 * call.limit)
            collaborative == locals[1].collaborative_recs
        IN  /\ Cardinality(window) <= 2 * call.limit
            /\ Len(collaborative) <= 2 * call.limit
            /\ CoursesIn(locals[1].content_based_recs) = window
            /\ \A k \in 1..Len(result.value) :
                   result.value[k].courseId \in window \cup CoursesIn(collaborative)

\* a call with exclude_taken returns fewer than limit courses although limit
\* or more courses of the table are not taken, have the difficulty asked for
\* and have their prerequisites met: the missing ones are outside both
\* windows
C29_Witness ==
    /\ Recommended /\ call.exclude_taken
    /\ call.limit >= 1
    /\ Len(result.value) < call.limit
    /\ Cardinality(Eligible) >= call.limit
    /\ \E c \in Eligible :
           c \notin ContentWindow(2 * call.limit)
                        \cup CoursesIn(locals[1].collaborative_recs)

\* C30: every record returned by recommend_courses has matchScore >= 20: the
\* fused score and the popularity score of a candidate are not negative and
\* level_match is 1.0 or 1.2, so its final score is at least 0.2
C30_MatchScoreAtLeastTwenty ==
    Recommended =>
        /\ \A k \in 1..Len(result.value) : result.value[k].matchScore >= 20
        /\ \A k \in 1..Len(locals[1].all_recs) : locals[1].all_recs[k][2] >= 0
        /\ \A k \in 1..Len(locals[1].filtered_courses.value) :
               LET item == locals[1].filtered_courses.value[k]
               IN  /\ CourseRow(item[1]).popularity_score >= 0
                   /\ item[2] >= (2 * One) \div 10

\* a trained model returns a record of a course of another year whose fused
\* score is 0: its matchScore comes from level_match and popularity alone
C30_Witness ==
    /\ Recommended
    /\ "train" \in called
    /\ \E k \in 1..Len(result.value) :
           /\ ScoreIn(locals[1].all_recs, result.value[k].courseId) = 0
           /\ CourseRow(result.value[k].courseId).level \div 100 # YearOfStudy
           /\ result.value[k].matchScore < 25

====
